---- MODULE Spec2Model ----
(***************************************************************************)
(* A model of tauria-tsgen's extraction engine                             *)
(* (src/src/generator/type_extractor.rs) and of the per-module pipeline    *)
(* that drives it (src/src/generator/ts_file_generator.rs).                *)
(*                                                                         *)
(* Strings of the program are TLA+ strings; TLC evaluates \o, Len and      *)
(* SubSeq on them, so format!(), starts_with() and contains() are modelled *)
(* character for character.                                                *)
(***************************************************************************)
EXTENDS Integers, Sequences, FiniteSets, TLC

VARIABLES
    \* ---- the per-module pipeline (generate_ts_files) ----
    items,                  \* syntax.items of the parsed module
    pc,                     \* position inside generate_ts_files
    all_extracted_types,    \* Vec<ExtractedTypeInfo>
    functions,              \* Vec<serde_json::Value>, the command descriptors
    global_events,          \* Vec<EventInfo>
    window_events,          \* Vec<WindowEventInfo>
    has_user_defined_types_in_commands,  \* the flag of the template context
    \* ---- one application of the type mapper (type_to_ts) ----
    ty,                     \* the declared-type node
    defined_types,          \* the known-type set, a Vec<String>
    is_tauri_command_type,  \* the strict flag
    ts_type,                \* the returned String, or NoResult before the call
    \* ---- one run of the generator over a directory (run_app) ----
    directory,              \* the .rs files of the input directory: stem -> source
    pending,                \* the files read_dir has not yielded yet
    mock_api,               \* cli.mock_api
    file_names,             \* Vec<String>, the stems of the files with commands
    all_ts_interfaces,      \* Vec<ExtractedTypeInfo> of all files
    written,                \* the files written below the output directory
    types_index,            \* the declarations written to interface/types/index.ts
    run_state,              \* "idle", "reading", "failed" (Err returned) or "finished"
    \* ---- one resolution of a type path against the use declarations ----
    alias_pc,               \* "idle", "uses" (before extract_use_aliases), "path", "done"
    alias_map,              \* aliases, the HashMap of extract_use_aliases
    resolved_path           \* final_path of is_ignored_tauri_type, or NoResult

vars == <<items, pc, all_extracted_types, functions, global_events, window_events,
          has_user_defined_types_in_commands,
          ty, defined_types, is_tauri_command_type, ts_type,
          directory, pending, mock_api, file_names, all_ts_interfaces, written,
          types_index, run_state, alias_pc, alias_map, resolved_path>>

pipeline_vars == <<items, pc, all_extracted_types, functions,
                   global_events, window_events, has_user_defined_types_in_commands>>
mapper_vars == <<ty, defined_types, is_tauri_command_type, ts_type>>
run_vars == <<directory, pending, mock_api, file_names, all_ts_interfaces, written,
              types_index, run_state>>
alias_vars == <<alias_pc, alias_map, resolved_path>>

(***************************************************************************)
(* Bounds of the model.                                                    *)
(***************************************************************************)
\* nesting depth of the declared types handed to the type mapper
MaxDepth == 2
\* .rs files of the input directory
MaxFiles == 2
\* number of parameters of a command
MaxParams == 2
\* declarations of a generated type-declaration module
MaxDecls == 2
\* statements of a generated procedure body
MaxCalls == 2
\* use declarations of a generated module
MaxUses == 2

(***************************************************************************)
(* String and sequence helpers (std::string::String, Vec).                 *)
(***************************************************************************)
\* str::starts_with
StartsWith(s, p) == Len(s) >= Len(p) /\ SubSeq(s, 1, Len(p)) = p

\* str::contains
ContainsStr(s, p) ==
    \E i \in 1..(Len(s) - Len(p) + 1) : SubSeq(s, i, i + Len(p) - 1) = p

\* [String]::join
RECURSIVE Join(_, _)
Join(strs, sep) ==
    IF strs = <<>> THEN ""
    ELSE IF Len(strs) = 1 THEN strs[1]
    ELSE strs[1] \o sep \o Join(Tail(strs), sep)

\* slice::contains
Contains(seq, x) == \E i \in 1..Len(seq) : seq[i] = x

\* slice::last, on a non-empty sequence
Last(seq) == seq[Len(seq)]

(***************************************************************************)
(* syn::Type.  A node is one of                                            *)
(*   Path      segments: the idents of the path's segments,                *)
(*             arguments: the generic arguments of the LAST segment        *)
(*             (<<>> for PathArguments::None; the code reads no other      *)
(*             segment's arguments and treats None, `<>` and a             *)
(*             parenthesized list alike);                                  *)
(*   Reference elem;  Tuple elems;  Other (array, slice, fn pointer,       *)
(*             impl Trait, ...: every kind the code's `_ =>` arm takes).   *)
(* A generic argument is a type node or Lifetime (standing for every       *)
(* syn::GenericArgument that is not GenericArgument::Type).                *)
(***************************************************************************)
TPath(segs, args) == [kind |-> "Path", segments |-> segs, arguments |-> args]
TName(ident) == TPath(<<ident>>, <<>>)
TGen(ident, args) == TPath(<<ident>>, args)
TRef(t) == [kind |-> "Reference", elem |-> t]
TTuple(es) == [kind |-> "Tuple", elems |-> es]
TUnit == TTuple(<<>>)
TOther == [kind |-> "Other"]
Lifetime == [kind |-> "Lifetime"]

\* IsTypeArg that takes every generic argument for a type
IsTypeArg_AnyArgument(a) == TRUE

\* matches syn::GenericArgument::Type(_)
IsTypeArg(a) == a.kind # "Lifetime"

NoResult == "<none>"

(***************************************************************************)
(* type_to_ts                                                              *)
(***************************************************************************)
\* the numeric arm without the 128-bit and pointer-sized idents
NumberIdents_NoWide ==
    {"u8", "u16", "u32", "u64", "i8", "i16", "i32", "i64", "f32", "f64"}

NumberIdents ==
    {"u8", "u16", "u32", "u64", "u128", "i8", "i16", "i32", "i64", "i128",
     "usize", "isize", "f32", "f64"}

\* NamedType with `||` mistaken for `&&`
NamedType_MarkerOnlyWhenStrictAndUnknown(ident_str, known, strict) ==
    IF strict /\ ~Contains(known, ident_str)
    THEN "T." \o ident_str
    ELSE ident_str

\* the `_ =>` arm of the ident match: a named type that is neither a
\* primitive nor a recognized container
NamedType(ident_str, known, strict) ==
    IF strict \/ ~Contains(known, ident_str)
    THEN "T." \o ident_str
    ELSE ident_str

\* format!("{inner_ts_type} | undefined")
OptionOf(inner_ts_type) == inner_ts_type \o " | undefined"

\* format!("{inner_ts_type}[]")
VecOf(inner_ts_type) == inner_ts_type \o "[]"

\* format!("Record<{key_ts_type}, {value_ts_type}>")
RecordOf(key_ts_type, value_ts_type) ==
    "Record<" \o key_ts_type \o ", " \o value_ts_type \o ">"

\* ResultOf that gives up on every Result
ResultOf_Any(ok_ts_type) == "any"

\* `return ok_ts_type;` of the "Result" arm: the error type is not read
ResultOf(ok_ts_type) == ok_ts_type

RECURSIVE type_to_ts(_, _, _)
type_to_ts(t, known, strict) ==
    CASE t.kind = "Path" ->
           IF t.segments = <<>> THEN "any"
           ELSE LET ident_str == Last(t.segments)
                    args == t.arguments
                    first_is_type == args # <<>> /\ IsTypeArg(args[1])
                IN  CASE ident_str = "String" -> "string"
                      [] ident_str = "bool" -> "boolean"
                      [] ident_str \in NumberIdents -> "number"
                      [] ident_str = "Option" ->
                           IF first_is_type
                           THEN OptionOf(type_to_ts(args[1], known, strict))
                           ELSE "any"
                      [] ident_str = "Vec" ->
                           IF first_is_type
                           THEN VecOf(type_to_ts(args[1], known, strict))
                           ELSE "any[]"
                      [] ident_str = "HashMap" ->
                           IF Len(args) = 2 /\ IsTypeArg(args[1]) /\ IsTypeArg(args[2])
                           THEN RecordOf(type_to_ts(args[1], known, strict),
                                         type_to_ts(args[2], known, strict))
                           ELSE "Record<any, any>"
                      [] ident_str = "Result" ->
                           IF first_is_type
                           THEN ResultOf(type_to_ts(args[1], known, strict))
                           ELSE "any"
                      [] OTHER -> NamedType(ident_str, known, strict)
      [] t.kind = "Reference" ->
           IF /\ t.elem.kind = "Path"
              /\ t.elem.segments # <<>>
              /\ Last(t.elem.segments) = "str"
           THEN "string"
           ELSE type_to_ts(t.elem, known, strict)
      [] t.kind = "Tuple" ->
           IF t.elems = <<>> THEN "void"
           ELSE "[" \o Join([i \in 1..Len(t.elems) |->
                                type_to_ts(t.elems[i], known, strict)], ", ")
                    \o "]"
      [] OTHER -> "any"

(***************************************************************************)
(* The declared types the type mapper is applied to: every type of nesting *)
(* depth at most MaxDepth over a few leaves, the containers the mapper     *)
(* recognizes, references and pairs.                                       *)
(***************************************************************************)
LeafTypes ==
    {TName("String"), TName("u32"), TName("bool"), TName("str"),
     TName("Foo"), TName("Bar"), TPath(<<"other", "Foo">>, <<>>),
     TUnit, TOther}

\* the second component of a two-place container
SideTypes == {TName("String"), TName("Foo"), TName("Bar")}

RECURSIVE TypesOfDepth(_)
TypesOfDepth(d) ==
    IF d = 0 THEN LeafTypes
    ELSE LET inner == TypesOfDepth(d - 1)
         IN  inner
             \cup {TGen("Option", <<t>>) : t \in inner}
             \cup {TGen("Vec", <<t>>) : t \in inner}
             \cup {TRef(t) : t \in inner}
             \cup {TGen("Result", <<t, e>>) : t \in inner, e \in SideTypes}
             \cup {TGen("HashMap", <<k, t>>) : k \in SideTypes, t \in inner}
             \cup {TTuple(<<t, s>>) : t \in inner, s \in SideTypes}

KnownTypeSets == {<<>>, <<"Foo">>, <<"Foo", "Bar">>}

\* every primitive the mapper names, and String behind a module path
PrimitiveTypes ==
    {TName(p) : p \in {"String", "bool", "u8", "u16", "u32", "u64", "u128", "usize",
                       "i8", "i16", "i32", "i64", "i128", "isize", "f32", "f64"}}
    \cup {TPath(<<"std", "string", "String">>, <<>>)}

\* nodes the parser does not produce from valid declarations, or that the
\* mapper has no arm for: an empty path, containers without, with too few,
\* too many or non-type generic arguments, unsupported kinds below a
\* reference or in a tuple
MalformedTypes ==
    {TPath(<<>>, <<>>),
     TName("Option"), TGen("Option", <<Lifetime>>),
     TGen("Option", <<Lifetime, TName("Foo")>>),
     TName("Vec"), TGen("Vec", <<Lifetime>>),
     TName("HashMap"), TGen("HashMap", <<TName("String")>>),
     TGen("HashMap", <<Lifetime, TName("String")>>),
     TGen("HashMap", <<TName("String"), Lifetime>>),
     TGen("HashMap", <<TName("String"), TName("Foo"), TName("Bar")>>),
     TName("Result"), TGen("Result", <<Lifetime, TName("Foo")>>),
     TGen("Result", <<TName("Foo")>>),
     TRef(TOther), TRef(TPath(<<>>, <<>>)),
     TTuple(<<TOther>>), TTuple(<<TName("String")>>)}

\* the error types a Result is declared with
ErrorTypes ==
    SideTypes
    \cup {TUnit, TOther, TName("Oops"), TGen("Option", <<TName("Foo")>>),
          TGen("Vec", <<TName("u32")>>), TRef(TName("str")),
          TPath(<<"std", "io", "Error">>, <<>>)}

ResultTypes == {TGen("Result", <<t, e>>) : t \in LeafTypes, e \in ErrorTypes}

\* the nodes above, bare and inside one container or reference
SpecialTypes ==
    LET bare == PrimitiveTypes \cup MalformedTypes \cup ResultTypes
    IN  bare
        \cup {TGen("Option", <<t>>) : t \in bare}
        \cup {TGen("Vec", <<t>>) : t \in bare}
        \cup {TRef(t) : t \in bare}
        \cup {TGen("HashMap", <<TName("String"), t>>) : t \in bare}

\* the declared types the mapper is applied to
MapperInputs == TypesOfDepth(MaxDepth) \cup SpecialTypes

(***************************************************************************)
(* Specification of the type mapper alone: the inputs are drawn in the     *)
(* initial state and one step applies type_to_ts.                          *)
(***************************************************************************)
RunIdle ==
    /\ directory = <<>>
    /\ pending = {}
    /\ mock_api = FALSE
    /\ file_names = <<>>
    /\ all_ts_interfaces = <<>>
    /\ written = {}
    /\ types_index = <<>>
    /\ run_state = "idle"

PipelineIdle ==
    /\ items = <<>>
    /\ pc = "idle"
    /\ all_extracted_types = <<>>
    /\ functions = <<>>
    /\ global_events = <<>>
    /\ window_events = <<>>
    /\ has_user_defined_types_in_commands = FALSE

\* no resolution of a type path is under way (the map is the empty HashMap)
AliasIdle ==
    /\ alias_pc = "idle"
    /\ alias_map = [k \in {} |-> ""]
    /\ resolved_path = NoResult

InitMapper ==
    /\ PipelineIdle
    /\ RunIdle
    /\ AliasIdle
    /\ ty \in MapperInputs
    /\ defined_types \in KnownTypeSets
    /\ is_tauri_command_type \in BOOLEAN
    /\ ts_type = NoResult

ApplyTypeToTs ==
    /\ ts_type = NoResult
    /\ ts_type' = type_to_ts(ty, defined_types, is_tauri_command_type)
    /\ UNCHANGED <<ty, defined_types, is_tauri_command_type>>
    /\ UNCHANGED pipeline_vars
    /\ UNCHANGED run_vars
    /\ UNCHANGED alias_vars

NextMapper == ApplyTypeToTs

SpecMapper == InitMapper /\ [][NextMapper]_vars

(***************************************************************************)
(* syn::Attribute.  path: the idents of the attribute's path; meta:        *)
(*   [kind |-> "Path"]                       #[name]                       *)
(*   [kind |-> "List", parses, paths]        #[name(...)]: parses is       *)
(*        whether the tokens are a comma-separated list of paths, paths    *)
(*        that list (each a sequence of idents)                            *)
(*   [kind |-> "NameValue", value]           #[name = "literal"]           *)
(***************************************************************************)
AttrPath(path) == [path |-> path, meta |-> [kind |-> "Path"]]
AttrList(path, paths) ==
    [path |-> path, meta |-> [kind |-> "List", parses |-> TRUE, paths |-> paths]]
AttrListOther(path) ==
    [path |-> path, meta |-> [kind |-> "List", parses |-> FALSE, paths |-> <<>>]]
AttrDoc(text) == [path |-> <<"doc">>, meta |-> [kind |-> "NameValue", value |-> text]]
Derive(paths) == AttrList(<<"derive">>, paths)

\* syn::Path::is_ident
IsIdent(path, ident) == path = <<ident>>

\* has_derive_macro that compares the whole path with the macro name
has_derive_macro_WholePath(attrs, macro_name) ==
    \E i \in 1..Len(attrs) :
        /\ IsIdent(attrs[i].path, "derive")
        /\ attrs[i].meta.kind = "List"
        /\ attrs[i].meta.parses
        /\ \E j \in 1..Len(attrs[i].meta.paths) :
              attrs[i].meta.paths[j] = <<macro_name>>

has_derive_macro(attrs, macro_name) ==
    \E i \in 1..Len(attrs) :
        /\ IsIdent(attrs[i].path, "derive")
        /\ attrs[i].meta.kind = "List"
        /\ attrs[i].meta.parses
        /\ \E j \in 1..Len(attrs[i].meta.paths) :
              LET path == attrs[i].meta.paths[j]
              IN  path # <<>> /\ Last(path) = macro_name

has_tauri_command(attrs) ==
    \E i \in 1..Len(attrs) :
        \/ IsIdent(attrs[i].path, "command")
        \/ attrs[i].path = <<"tauri", "command">>

\* str::trim (the whitespace of the model's texts is the blank)
RECURSIVE TrimStart(_)
TrimStart(s) ==
    IF Len(s) > 0 /\ SubSeq(s, 1, 1) = " " THEN TrimStart(SubSeq(s, 2, Len(s))) ELSE s
RECURSIVE TrimEnd(_)
TrimEnd(s) ==
    IF Len(s) > 0 /\ SubSeq(s, Len(s), Len(s)) = " "
    THEN TrimEnd(SubSeq(s, 1, Len(s) - 1)) ELSE s
Trim(s) == TrimEnd(TrimStart(s))

extract_doc_comments(attrs) ==
    LET is_doc(a) == IsIdent(a.path, "doc") /\ a.meta.kind = "NameValue"
        docs == SelectSeq(attrs, is_doc)
    IN  Join([i \in 1..Len(docs) |-> Trim(docs[i].meta.value)], "\n")

(***************************************************************************)
(* syn::Item.                                                              *)
(*   Struct  ident, attrs, fields                                          *)
(*   Enum    ident, attrs, variants: each [ident, attrs, fields]           *)
(*   Fn      ident, attrs, inputs (FnArg), output (ReturnType)             *)
(*   Use     tree (UseTree)                                                *)
(*   Other   any other item                                                *)
(* syn::Fields is [kind |-> "Named", members: each [ident, ty, attrs]],    *)
(* [kind |-> "Unnamed", members: each [ty, attrs]] or [kind |-> "Unit"].   *)
(***************************************************************************)
FieldsNamed(ms) == [kind |-> "Named", members |-> ms]
FieldsUnnamed(ms) == [kind |-> "Unnamed", members |-> ms]
FieldsUnit == [kind |-> "Unit", members |-> <<>>]
Field(ident, t) == [ident |-> ident, ty |-> t, attrs |-> <<>>]
Variant(ident, fields) == [ident |-> ident, attrs |-> <<>>, fields |-> fields]

ItemStruct(ident, attrs, fields) ==
    [kind |-> "Struct", ident |-> ident, attrs |-> attrs, fields |-> fields]
ItemEnum(ident, attrs, variants) ==
    [kind |-> "Enum", ident |-> ident, attrs |-> attrs, variants |-> variants]
\* body: the expressions of the block's statements
ItemFnBody(ident, attrs, inputs, output, body) ==
    [kind |-> "Fn", ident |-> ident, attrs |-> attrs, inputs |-> inputs,
     output |-> output, body |-> body]
ItemFn(ident, attrs, inputs, output) == ItemFnBody(ident, attrs, inputs, output, <<>>)
ItemUse(tree) == [kind |-> "Use", tree |-> tree]
ItemOther == [kind |-> "Other"]

\* the {"name", "type", "doc_comment"} object of a named field
FieldJson(f, known) ==
    [name |-> f.ident,
     type |-> type_to_ts(f.ty, known, FALSE),
     doc_comment |-> extract_doc_comments(f.attrs)]

convert_struct_to_ts_interface(s, known) ==
    [type |-> "interface",
     name |-> s.ident,
     doc_comment |-> extract_doc_comments(s.attrs),
     fields |-> IF s.fields.kind = "Named"
                THEN [i \in 1..Len(s.fields.members) |->
                         FieldJson(s.fields.members[i], known)]
                ELSE <<>>]

VariantJson(v, known) ==
    CASE v.fields.kind = "Unit" ->
           [name |-> v.ident, doc_comment |-> extract_doc_comments(v.attrs),
            type |-> "unit"]
      [] v.fields.kind = "Unnamed" ->
           [name |-> v.ident, doc_comment |-> extract_doc_comments(v.attrs),
            type |-> "tuple",
            members |-> [i \in 1..Len(v.fields.members) |->
                            type_to_ts(v.fields.members[i].ty, known, FALSE)]]
      [] OTHER ->
           [name |-> v.ident, doc_comment |-> extract_doc_comments(v.attrs),
            type |-> "struct",
            members |-> [i \in 1..Len(v.fields.members) |->
                            FieldJson(v.fields.members[i], known)]]

convert_enum_to_ts_enum(e, known) ==
    [type |-> "enum",
     name |-> e.ident,
     doc_comment |-> extract_doc_comments(e.attrs),
     variants |-> [i \in 1..Len(e.variants) |-> VariantJson(e.variants[i], known)]]

\* ExtractedTypeInfo
TypeInfo(name, ts_interface, ser, de) ==
    [name |-> name, ts_interface |-> ts_interface,
     is_serializable |-> ser, is_deserializable |-> de]

\* the names of a Vec<ExtractedTypeInfo>
TypeNames(infos) == [i \in 1..Len(infos) |-> infos[i].name]

\* one turn of extract_and_convert_types's loop: extracted is the list so
\* far, whose names are the defined_types_names so far
ExtractItem(extracted, item) ==
    CASE item.kind = "Struct" ->
           Append(extracted,
                  TypeInfo(item.ident,
                           convert_struct_to_ts_interface(item, TypeNames(extracted)),
                           has_derive_macro(item.attrs, "Serialize"),
                           has_derive_macro(item.attrs, "Deserialize")))
      [] item.kind = "Enum" ->
           Append(extracted,
                  TypeInfo(item.ident,
                           convert_enum_to_ts_enum(item, TypeNames(extracted)),
                           has_derive_macro(item.attrs, "Serialize"),
                           has_derive_macro(item.attrs, "Deserialize")))
      [] OTHER -> extracted

RECURSIVE ExtractFrom(_, _, _)
ExtractFrom(its, i, extracted) ==
    IF i > Len(its) THEN extracted
    ELSE ExtractFrom(its, i + 1, ExtractItem(extracted, its[i]))

extract_and_convert_types(its) == ExtractFrom(its, 1, <<>>)

(***************************************************************************)
(* syn::UseTree and the alias map (a HashMap<String, String>, here a       *)
(* function from the local names to the full paths).                       *)
(***************************************************************************)
UsePath(ident, tree) == [kind |-> "Path", ident |-> ident, tree |-> tree]
UseName(ident) == [kind |-> "Name", ident |-> ident]
UseRename(ident, rename) == [kind |-> "Rename", ident |-> ident, rename |-> rename]
UseGroup(trees) == [kind |-> "Group", items |-> trees]
UseGlob == [kind |-> "Glob"]

EmptyMap == [k \in {} |-> ""]

\* HashMap::insert
Insert(m, k, v) == [x \in DOMAIN m \cup {k} |-> IF x = k THEN v ELSE m[x]]

RECURSIVE parse_use_tree(_, _, _)
parse_use_tree(aliases, tree, current_path) ==
    CASE tree.kind = "Path" ->
           parse_use_tree(aliases, tree.tree, Append(current_path, tree.ident))
      [] tree.kind = "Name" ->
           Insert(aliases, tree.ident, Join(Append(current_path, tree.ident), "::"))
      [] tree.kind = "Rename" ->
           Insert(aliases, tree.rename, Join(Append(current_path, tree.ident), "::"))
      [] tree.kind = "Group" ->
           LET RECURSIVE group(_, _)
               group(acc, i) ==
                   IF i > Len(tree.items) THEN acc
                   ELSE group(parse_use_tree(acc, tree.items[i], current_path), i + 1)
           IN  group(aliases, 1)
      [] OTHER -> aliases

RECURSIVE UseAliasesFrom(_, _, _)
UseAliasesFrom(its, i, aliases) ==
    IF i > Len(its) THEN aliases
    ELSE UseAliasesFrom(its, i + 1,
                        IF its[i].kind = "Use"
                        THEN parse_use_tree(aliases, its[i].tree, <<>>)
                        ELSE aliases)

\* extract_use_aliases that takes `use tauri::*` to import the context types
extract_use_aliases_GlobResolved(its) ==
    LET named == UseAliasesFrom(its, 1, EmptyMap)
        globbed == IF \E i \in 1..Len(its) :
                         /\ its[i].kind = "Use"
                         /\ its[i].tree = UsePath("tauri", UseGlob)
                   THEN {"WebviewWindow", "State", "AppHandle", "Window"}
                   ELSE {}
    IN  [x \in DOMAIN named \cup globbed |->
            IF x \in DOMAIN named THEN named[x] ELSE "tauri::" \o x]

extract_use_aliases(its) == UseAliasesFrom(its, 1, EmptyMap)

(***************************************************************************)
(* The framework types the command modeler recognizes.                     *)
(***************************************************************************)
IGNORED_TAURI_TYPES ==
    {"tauri::WebviewWindow", "tauri::State", "tauri::AppHandle", "tauri::Window"}

\* FinalPath that looks the first segment up whatever the length of the path
FinalPath_FirstSegment(t, aliases) ==
    LET path_str == Join(t.segments, "::")
    IN  IF Len(t.segments) >= 1 /\ t.segments[1] \in DOMAIN aliases
        THEN aliases[t.segments[1]]
        ELSE path_str

\* the path a Type::Path is compared by: a single-segment path is looked up
\* in the alias map, a longer one is taken as written
FinalPath(t, aliases) ==
    LET path_str == Join(t.segments, "::")
    IN  IF Len(t.segments) = 1 /\ path_str \in DOMAIN aliases
        THEN aliases[path_str]
        ELSE path_str

\* is_ignored_tauri_type without the starts_with test
RECURSIVE is_ignored_tauri_type_ExactOnly(_, _)
is_ignored_tauri_type_ExactOnly(t, aliases) ==
    CASE t.kind = "Path" -> FinalPath(t, aliases) \in IGNORED_TAURI_TYPES
      [] t.kind = "Reference" -> is_ignored_tauri_type_ExactOnly(t.elem, aliases)
      [] OTHER -> FALSE

RECURSIVE is_ignored_tauri_type(_, _)
is_ignored_tauri_type(t, aliases) ==
    CASE t.kind = "Path" ->
           LET final_path == FinalPath(t, aliases)
           IN  \/ StartsWith(final_path, "tauri::State")
               \/ final_path \in IGNORED_TAURI_TYPES
      [] t.kind = "Reference" -> is_ignored_tauri_type(t.elem, aliases)
      [] OTHER -> FALSE

RECURSIVE is_tauri_ipc_response(_, _)
is_tauri_ipc_response(t, aliases) ==
    CASE t.kind = "Path" -> FinalPath(t, aliases) = "tauri::ipc::Response"
      [] t.kind = "Reference" -> is_tauri_ipc_response(t.elem, aliases)
      [] OTHER -> FALSE

(***************************************************************************)
(* get_user_defined_type_names: the known names a declared type mentions,  *)
(* in the order the search meets them (with repetitions).                  *)
(***************************************************************************)
\* get_user_defined_type_names without the Type::Tuple arm
get_user_defined_type_names_NoTuple(t, defined_types_names) ==
    LET RECURSIVE names(_)
        RECURSIVE over(_, _)
        over(ts, i) ==
            IF i > Len(ts) THEN <<>>
            ELSE (IF IsTypeArg(ts[i]) THEN names(ts[i]) ELSE <<>>) \o over(ts, i + 1)
        names(u) ==
            CASE u.kind = "Path" ->
                   IF u.segments = <<>> THEN <<>>
                   ELSE (IF Contains(defined_types_names, Last(u.segments))
                         THEN <<Last(u.segments)>> ELSE <<>>)
                        \o over(u.arguments, 1)
              [] u.kind = "Reference" -> names(u.elem)
              [] OTHER -> <<>>
    IN  names(t)

RECURSIVE get_user_defined_type_names(_, _)
get_user_defined_type_names(t, defined_types_names) ==
    LET RECURSIVE over(_, _)
        \* the concatenated results for the type nodes among ts[i..]
        over(ts, i) ==
            IF i > Len(ts) THEN <<>>
            ELSE (IF IsTypeArg(ts[i])
                  THEN get_user_defined_type_names(ts[i], defined_types_names)
                  ELSE <<>>) \o over(ts, i + 1)
    IN  CASE t.kind = "Path" ->
               IF t.segments = <<>> THEN <<>>
               ELSE (IF Contains(defined_types_names, Last(t.segments))
                     THEN <<Last(t.segments)>> ELSE <<>>)
                    \o over(t.arguments, 1)
          [] t.kind = "Reference" ->
               get_user_defined_type_names(t.elem, defined_types_names)
          [] t.kind = "Tuple" -> over(t.elems, 1)
          [] OTHER -> <<>>

(***************************************************************************)
(* extract_tauri_commands.  A syn::FnArg is                                *)
(*   [kind |-> "Typed", pat, ty]  with pat [kind |-> "Ident", ident] or    *)
(*                                [kind |-> "Other"] (`_`, a tuple, ...)   *)
(*   [kind |-> "Receiver"]        (`self`)                                 *)
(* and a syn::ReturnType is [kind |-> "Default"] or [kind |-> "Type", ty]. *)
(***************************************************************************)
PatIdent(ident) == [kind |-> "Ident", ident |-> ident]
PatOther == [kind |-> "Other"]
Typed(pat, t) == [kind |-> "Typed", pat |-> pat, ty |-> t]
Receiver == [kind |-> "Receiver"]
ReturnDefault == [kind |-> "Default"]
ReturnType(t) == [kind |-> "Type", ty |-> t]

\* the name an argument is displayed under
ArgName(pat) == IF pat.kind = "Ident" THEN pat.ident ELSE "arg"

\* all_extracted_types.iter().find(|info| &info.name == name): the index of
\* the first entry of that name, 0 when there is none
FindType(infos, name) ==
    IF \E i \in 1..Len(infos) : infos[i].name = name
    THEN CHOOSE i \in 1..Len(infos) :
            /\ infos[i].name = name
            /\ \A j \in 1..(i - 1) : infos[j].name # name
    ELSE 0

\* AllDeserializable that looks at the head name of the type only
AllDeserializable_HeadOnly(t, infos) ==
    \/ t.kind # "Path"
    \/ t.segments = <<>>
    \/ FindType(infos, Last(t.segments)) = 0
    \/ infos[FindType(infos, Last(t.segments))].is_deserializable

\* all_args_deserializable after the loop over the names the type mentions
AllDeserializable(t, infos) ==
    LET names == get_user_defined_type_names(t, TypeNames(infos))
    IN  \A i \in 1..Len(names) :
            LET k == FindType(infos, names[i])
            IN  k # 0 => infos[k].is_deserializable

\* the serializable counterpart, for the return type
AllSerializable(t, infos) ==
    LET names == get_user_defined_type_names(t, TypeNames(infos))
    IN  \A i \in 1..Len(names) :
            LET k == FindType(infos, names[i])
            IN  k # 0 => infos[k].is_serializable

\* format!("{name}: {ty_str}")
ArgEntry(input, infos) ==
    ArgName(input.pat) \o ": " \o type_to_ts(input.ty, TypeNames(infos), TRUE)

\* format!("{name}: {name}")
InvokeEntry(input, infos) == ArgName(input.pat) \o ": " \o ArgName(input.pat)

\* the declared type is Result<(), ..>
is_result_unit(t) ==
    /\ t.kind = "Path"
    /\ t.segments # <<>>
    /\ Last(t.segments) = "Result"
    /\ t.arguments # <<>>
    /\ t.arguments[1].kind = "Tuple"
    /\ t.arguments[1].elems = <<>>

\* ReturnTs that drops the serializable check
ReturnTs_NoSerializableCheck(output, aliases, infos) ==
    IF output.kind = "Type"
    THEN IF is_result_unit(output.ty) THEN "void"
         ELSE IF is_tauri_ipc_response(output.ty, aliases) THEN "unknown"
         ELSE type_to_ts(output.ty, TypeNames(infos), TRUE)
    ELSE "void"

\* ReturnTs that does not look for the response wrapper
ReturnTs_NoResponseCheck(output, aliases, infos) ==
    IF output.kind = "Type"
    THEN IF ~AllSerializable(output.ty, infos) THEN "unknown"
         ELSE IF is_result_unit(output.ty) THEN "void"
         ELSE type_to_ts(output.ty, TypeNames(infos), TRUE)
    ELSE "void"

\* ret_ty
ReturnTs(output, aliases, infos) ==
    IF output.kind = "Type"
    THEN LET final_ret_ty ==
                 IF is_result_unit(output.ty) THEN "void"
                 ELSE IF is_tauri_ipc_response(output.ty, aliases) THEN "unknown"
                 ELSE type_to_ts(output.ty, TypeNames(infos), TRUE)
         IN  IF AllSerializable(output.ty, infos) THEN final_ret_ty ELSE "unknown"
    ELSE "void"

\* InputStep that pushes the invocation entry before the Deserialize check
InputStep_InvokePushedEarly(acc, input, aliases, infos) ==
    IF input.kind # "Typed" THEN acc
    ELSE IF is_ignored_tauri_type(input.ty, aliases) THEN acc
    ELSE IF ~AllDeserializable(input.ty, infos)
         THEN [acc EXCEPT !.invoke_obj = Append(@, InvokeEntry(input, infos))]
    ELSE [args_ts |-> Append(acc.args_ts, ArgEntry(input, infos)),
          invoke_obj |-> Append(acc.invoke_obj, InvokeEntry(input, infos))]

\* InputStep without the test for the framework's context types
InputStep_NoContextCheck(acc, input, aliases, infos) ==
    IF input.kind # "Typed" THEN acc
    ELSE IF ~AllDeserializable(input.ty, infos) THEN acc
    ELSE [args_ts |-> Append(acc.args_ts, ArgEntry(input, infos)),
          invoke_obj |-> Append(acc.invoke_obj, InvokeEntry(input, infos))]

\* one turn of the loop over func.sig.inputs; acc holds args_ts and
\* invoke_obj
InputStep(acc, input, aliases, infos) ==
    IF input.kind # "Typed" THEN acc
    ELSE IF is_ignored_tauri_type(input.ty, aliases) THEN acc
    ELSE IF ~AllDeserializable(input.ty, infos) THEN acc
    ELSE [args_ts |-> Append(acc.args_ts, ArgEntry(input, infos)),
          invoke_obj |-> Append(acc.invoke_obj, InvokeEntry(input, infos))]

RECURSIVE InputsFrom(_, _, _, _, _)
InputsFrom(inputs, i, acc, aliases, infos) ==
    IF i > Len(inputs) THEN acc
    ELSE InputsFrom(inputs, i + 1, InputStep(acc, inputs[i], aliases, infos),
                    aliases, infos)

\* func_json
CommandJson(func, aliases, infos) ==
    LET pushed == InputsFrom(func.inputs, 1,
                             [args_ts |-> <<>>, invoke_obj |-> <<>>],
                             aliases, infos)
    IN  [name |-> func.ident,
         doc_comment |-> extract_doc_comments(func.attrs),
         args |-> pushed.args_ts,
         invoke_args |-> pushed.invoke_obj,
         return_type |-> ReturnTs(func.output, aliases, infos)]

\* the `if let Item::Fn(func) = item { if has_tauri_command(&func.attrs)`
IsCommand(item) == item.kind = "Fn" /\ has_tauri_command(item.attrs)

extract_tauri_commands(its, infos) ==
    LET aliases == extract_use_aliases(its)
        commands == SelectSeq(its, IsCommand)
    IN  [i \in 1..Len(commands) |-> CommandJson(commands[i], aliases, infos)]

(***************************************************************************)
(* The module sources the pipeline is run on.                              *)
(***************************************************************************)
DeriveBoth == Derive(<<<<"Serialize">>, <<"Deserialize">>>>)

\* the derive attribute that gives the flags (ser, de)
DeriveFor(ser, de) ==
    IF ser /\ de THEN <<DeriveBoth>>
    ELSE IF ser THEN <<Derive(<<<<"Debug">>, <<"Serialize">>>>)>>
    ELSE IF de THEN <<Derive(<<<<"Deserialize">>>>)>>
    ELSE <<>>

\* struct Point { x: i32, y: i32 }
PointStruct(attrs) ==
    ItemStruct("Point", attrs,
               FieldsNamed(<<Field("x", TName("i32")), Field("y", TName("i32"))>>))

\* #[derive(Serialize, Deserialize)] struct Foo { inner: Point, n: u32 }
FooStruct ==
    ItemStruct("Foo", <<AttrDoc(" A record. "), DeriveBoth>>,
               FieldsNamed(<<Field("inner", TName("Point")), Field("n", TName("u32"))>>))

ParamNames == <<"a", "b", "c", "d">>

\* a parameter list: the i-th shape under the i-th name
Params(shapes) ==
    [i \in 1..Len(shapes) |->
        Typed(IF shapes[i].named THEN PatIdent(ParamNames[i]) ELSE PatOther,
              shapes[i].ty)]

Shape(t) == [named |-> TRUE, ty |-> t]
Unnamed(t) == [named |-> FALSE, ty |-> t]

\* the sequences over S of length at most n
SeqsUpTo(S, n) == UNION {[1..k -> S] : k \in 0..n}

TauriCommand == AttrPath(<<"tauri", "command">>)

\* fn helper(p: Point) -> Point, without a command marker
HelperFn ==
    ItemFn("helper", <<>>, <<Typed(PatIdent("p"), TName("Point"))>>,
           ReturnType(TName("Point")))

(***************************************************************************)
(* syn::Expr, as far as the event visitor tells expressions apart:         *)
(*   Lit        lit: "Str", "Int", "Float" or "Bool"; value: its text      *)
(*   Path       segments (a variable is a path of one segment)             *)
(*   Struct     segments of the literal's path, fields: the field values   *)
(*   MethodCall receiver, method, args                                     *)
(*   Macro      its tokens are not expressions and are not visited         *)
(*   Other      any other kind, with the expressions it contains           *)
(***************************************************************************)
ExprLit(lit, value) == [kind |-> "Lit", lit |-> lit, value |-> value]
ExprPath(segments) == [kind |-> "Path", segments |-> segments]
ExprStruct(segments, fields) ==
    [kind |-> "Struct", segments |-> segments, fields |-> fields]
ExprMethodCall(receiver, method, args) ==
    [kind |-> "MethodCall", receiver |-> receiver, method |-> method, args |-> args]
ExprMacro == [kind |-> "Macro"]
ExprOther(children) == [kind |-> "Other", children |-> children]

\* IsStrLitAt that takes every literal for a name
IsStrLitAt_AnyLiteral(args, i) ==
    /\ Len(args) >= i
    /\ args[i].kind = "Lit"

\* Some(Expr::Lit(l)) with Lit::Str at position i (from 1) of the arguments
IsStrLitAt(args, i) ==
    /\ Len(args) >= i
    /\ args[i].kind = "Lit"
    /\ args[i].lit = "Str"

\* PayloadRustType without the Expr::Struct arm
PayloadRustType_PathOnly(arg) ==
    CASE arg.kind = "Path" ->
           IF arg.segments = <<>> THEN "any" ELSE Last(arg.segments)
      [] OTHER -> "any"

\* `let rust_type = match arg { .. }`
PayloadRustType(arg) ==
    CASE arg.kind \in {"Path", "Struct"} ->
           IF arg.segments = <<>> THEN "any" ELSE Last(arg.segments)
      [] OTHER -> "any"

\* syn::parse_str(&rust_type).unwrap_or(syn::parse_str("any").unwrap()): the
\* text is one identifier, which parses as a path of one segment
ParseTypeStr(rust_type) == TName(rust_type)

\* `let payload_type = if let Some(arg) = node.args.get(i - 1) { .. } else { "void" }`
PayloadType(args, i, defined) ==
    IF Len(args) >= i
    THEN type_to_ts(ParseTypeStr(PayloadRustType(args[i])), defined, TRUE)
    ELSE "void"

EventInfo(event_name, payload_type) ==
    [event_name |-> event_name, payload_type |-> payload_type]
WindowEventInfo(window_name, event_name, payload_type) ==
    [window_name |-> window_name, event_name |-> event_name,
     payload_type |-> payload_type]

\* RecordCall that keeps one entry per event name, the latest
RecordCall_LastWins(visitor, node, defined) ==
    IF node.method = "emit"
    THEN IF IsStrLitAt(node.args, 1)
         THEN [visitor EXCEPT !.global_events =
                  Append(SelectSeq(@, LAMBDA ev : ev.event_name # node.args[1].value),
                         EventInfo(node.args[1].value,
                                   PayloadType(node.args, 2, defined)))]
         ELSE visitor
    ELSE IF node.method = "emit_to"
    THEN IF IsStrLitAt(node.args, 1) /\ IsStrLitAt(node.args, 2)
         THEN [visitor EXCEPT !.window_events =
                  Append(SelectSeq(@, LAMBDA ev :
                                        \/ ev.window_name # node.args[1].value
                                        \/ ev.event_name # node.args[2].value),
                         WindowEventInfo(node.args[1].value, node.args[2].value,
                                         PayloadType(node.args, 3, defined)))]
         ELSE visitor
    ELSE visitor

\* the body of visit_expr_method_call before it descends: visitor is
\* [global_events, window_events]
RecordCall(visitor, node, defined) ==
    IF node.method = "emit"
    THEN IF IsStrLitAt(node.args, 1)
         THEN [visitor EXCEPT !.global_events =
                  Append(@, EventInfo(node.args[1].value,
                                      PayloadType(node.args, 2, defined)))]
         ELSE visitor
    ELSE IF node.method = "emit_to"
    THEN IF IsStrLitAt(node.args, 1) /\ IsStrLitAt(node.args, 2)
         THEN [visitor EXCEPT !.window_events =
                  Append(@, WindowEventInfo(node.args[1].value, node.args[2].value,
                                            PayloadType(node.args, 3, defined)))]
         ELSE visitor
    ELSE visitor

\* syn::visit: a method call is handled, then its receiver and its
\* arguments are visited; every other expression is descended into
RECURSIVE VisitExpr(_, _, _)
RECURSIVE VisitExprs(_, _, _)
VisitExpr(visitor, e, defined) ==
    CASE e.kind = "MethodCall" ->
           VisitExprs(VisitExpr(RecordCall(visitor, e, defined), e.receiver, defined),
                      e.args, defined)
      [] e.kind = "Struct" -> VisitExprs(visitor, e.fields, defined)
      [] e.kind = "Other" -> VisitExprs(visitor, e.children, defined)
      [] OTHER -> visitor

VisitExprs(visitor, es, defined) ==
    IF es = <<>> THEN visitor
    ELSE VisitExprs(VisitExpr(visitor, Head(es), defined), Tail(es), defined)

\* visitor.visit_item(item)
VisitItem(visitor, item, defined) ==
    IF item.kind = "Fn" THEN VisitExprs(visitor, item.body, defined) ELSE visitor

RECURSIVE VisitItems(_, _, _)
VisitItems(visitor, its, defined) ==
    IF its = <<>> THEN visitor
    ELSE VisitItems(VisitItem(visitor, Head(its), defined), Tail(its), defined)

extract_events(its, infos) ==
    VisitItems([global_events |-> <<>>, window_events |-> <<>>], its, TypeNames(infos))

\* ---- modules about serialization eligibility ----
EligibilityDecls ==
    {<<FooStruct>>}
    \cup {<<PointStruct(DeriveFor(ser, de)), FooStruct>> : ser \in BOOLEAN, de \in BOOLEAN}

EligibilityParamTypes ==
    {TName("String"), TName("Point"), TRef(TName("Point")),
     TGen("Option", <<TName("Point")>>),
     TGen("Vec", <<TGen("Option", <<TName("Point")>>)>>),
     TGen("HashMap", <<TName("String"), TName("Point")>>),
     TTuple(<<TName("String"), TName("Point")>>),
     TName("Foo"), TPath(<<"tauri", "Window">>, <<>>)}

EligibilityShapes ==
    {Shape(t) : t \in EligibilityParamTypes} \cup {Unnamed(TName("String"))}

EligibilityOutputs ==
    {ReturnDefault}
    \cup {ReturnType(t) : t \in
            {TName("String"), TName("Point"), TRef(TName("Point")),
             TGen("Option", <<TName("Point")>>),
             TGen("Result", <<TName("Point"), TName("String")>>),
             TGen("Result", <<TName("String"), TName("Point")>>),
             TGen("Result", <<TUnit, TName("Point")>>),
             TGen("Result", <<TUnit, TName("String")>>),
             TTuple(<<TName("Point"), TName("String")>>),
             TName("Foo")}}

EligibilityModule(decls, shapes, output) ==
    <<ItemUse(UsePath("serde", UseGroup(<<UseName("Serialize"), UseName("Deserialize")>>)))>>
      \o decls
      \o <<ItemFn("run", <<AttrDoc(" Runs. "), TauriCommand>>, Params(shapes), output),
           HelperFn>>

\* ---- modules about the framework's context and response types ----
\* struct WebviewWindow {} of the module itself, with both derives
LocalWebviewWindow == ItemStruct("WebviewWindow", <<DeriveBoth>>, FieldsNamed(<<>>))

\* use tauri::{WebviewWindow as MyWindow, State, AppHandle, Window};
\* use tauri::ipc::Response as IpcResponse;
UsesRenamed ==
    <<ItemUse(UsePath("tauri", UseGroup(<<UseRename("WebviewWindow", "MyWindow"),
                                          UseName("State"), UseName("AppHandle"),
                                          UseName("Window")>>))),
      ItemUse(UsePath("tauri", UsePath("ipc", UseRename("Response", "IpcResponse"))))>>

\* use tauri::*;
UsesGlob == <<ItemUse(UsePath("tauri", UseGlob))>>

\* use my_tauri::{WebviewWindow, State as MyState}; use tauri::Response;
UsesForeign ==
    <<ItemUse(UsePath("my_tauri", UseGroup(<<UseName("WebviewWindow"),
                                             UseRename("State", "MyState")>>))),
      ItemUse(UsePath("tauri", UseName("Response")))>>

\* use tauri::{ipc::{Response, Channel}, StateMachine as Machine, State as MyState};
UsesNested ==
    <<ItemUse(UsePath("tauri",
          UseGroup(<<UsePath("ipc", UseGroup(<<UseName("Response"), UseName("Channel")>>)),
                     UseRename("StateMachine", "Machine"),
                     UseRename("State", "MyState")>>)))>>

ContextPreambles ==
    {<<LocalWebviewWindow, FooStruct>>,
     UsesRenamed \o <<FooStruct>>,
     UsesGlob \o <<FooStruct>>,
     UsesForeign \o <<FooStruct>>,
     UsesNested \o <<FooStruct>>}

ContextParamTypes ==
    {TName("String"),
     TPath(<<"tauri", "WebviewWindow">>, <<>>),
     TRef(TPath(<<"tauri", "Window">>, <<>>)),
     TPath(<<"tauri", "State">>, <<Lifetime, TName("Foo")>>),
     TPath(<<"tauri", "AppHandle">>, <<>>),
     TName("MyWindow"), TRef(TName("MyWindow")),
     TGen("State", <<TName("Foo")>>), TName("AppHandle"), TName("Window"),
     TName("WebviewWindow"),
     TPath(<<"my_tauri", "WebviewWindow">>, <<>>),
     TGen("MyState", <<TName("Foo")>>),
     TPath(<<"tauri", "StateMachine">>, <<>>),
     TName("Machine")}

ContextOutputs == {ReturnDefault, ReturnType(TName("String"))}

\* a command over the context types: any parameters, a plain return
ContextModule(preamble, types, output) ==
    preamble
      \o <<ItemFn("show", <<AttrPath(<<"command">>)>>,
                  Params([i \in 1..Len(types) |-> Shape(types[i])]), output),
           HelperFn>>

ResponseParamTypes == {TName("String"), TPath(<<"tauri", "Window">>, <<>>)}

ResponseOutputs ==
    {ReturnType(t) : t \in
        {TName("String"),
         TPath(<<"tauri", "ipc", "Response">>, <<>>),
         TRef(TPath(<<"tauri", "ipc", "Response">>, <<>>)),
         TName("IpcResponse"), TRef(TName("IpcResponse")),
         TName("Response"),
         TPath(<<"tauri", "Response">>, <<>>)}}

\* a command over the response types: plain parameters, any return
ResponseModule(preamble, types, output) ==
    preamble
      \o <<ItemFn("fetch", <<TauriCommand>>,
                  Params([i \in 1..Len(types) |-> Shape(types[i])]), output),
           HelperFn>>

\* ---- modules of type declarations ----
\* the attribute lists a declaration is given
DeclAttrs ==
    {<<>>,
     <<Derive(<<<<"Serialize">>>>)>>,
     <<Derive(<<<<"Deserialize">>>>)>>,
     <<DeriveBoth>>,
     <<Derive(<<<<"Debug">>, <<"Clone">>>>)>>,
     <<Derive(<<<<"serde", "Serialize">>, <<"Debug">>>>)>>,
     <<Derive(<<<<"Debug">>>>), Derive(<<<<"serde", "Deserialize">>>>)>>,
     <<AttrListOther(<<"cfg_attr">>)>>,
     <<AttrDoc(" Documented. "), AttrPath(<<"non_exhaustive">>), DeriveBoth>>}

DeclNames == <<"Alpha", "Beta", "Gamma", "Delta">>

\* what may be declared at position i of the module
DeclsAt(i) ==
    {ItemStruct(DeclNames[i], attrs, FieldsNamed(<<Field("x", TName("u32"))>>)) :
        attrs \in DeclAttrs}
    \cup {ItemEnum(DeclNames[i], attrs,
                   <<Variant("A", FieldsUnit),
                     Variant("B", FieldsUnnamed(<<Field("", TName("String"))>>))>>) :
            attrs \in DeclAttrs}
    \cup {ItemStruct(DeclNames[i], attrs, FieldsUnit) : attrs \in {<<>>, <<DeriveBoth>>}}
    \cup {ItemFn(DeclNames[i], <<>>, <<>>, ReturnDefault), ItemOther}

\* the module of test_extract_and_convert_types
ExtractionTestModule ==
    <<ItemStruct("MyStruct", <<DeriveBoth>>,
                 FieldsNamed(<<Field("field1", TName("String"))>>)),
      ItemEnum("MyEnum", <<DeriveBoth>>, <<Variant("VariantA", FieldsUnit)>>),
      ItemStruct("NotConvertedStruct", <<>>, FieldsUnit),
      ItemStruct("OnlySerializable", <<Derive(<<<<"Serialize">>>>)>>, FieldsUnit),
      ItemStruct("OnlyDeserializable", <<Derive(<<<<"Deserialize">>>>)>>, FieldsUnit),
      ItemStruct("NoDerive", <<>>, FieldsUnit)>>

\* the modules of n declarations
RECURSIVE DeclSeqs(_)
DeclSeqs(n) ==
    IF n = 0 THEN {<<>>}
    ELSE {Append(decls, d) : decls \in DeclSeqs(n - 1), d \in DeclsAt(n)}

TypeModules == {ExtractionTestModule} \cup UNION {DeclSeqs(n) : n \in 0..MaxDecls}

\* ---- modules that emit events ----
\* #[derive(Serialize, Deserialize)] struct Ping { n: u32 }
PingStruct ==
    ItemStruct("Ping", <<DeriveBoth>>, FieldsNamed(<<Field("n", TName("u32"))>>))

\* (app: AppHandle, window: WebviewWindow, payload: Ping, name: String)
EventFnInputs ==
    <<Typed(PatIdent("app"), TName("AppHandle")),
      Typed(PatIdent("window"), TName("WebviewWindow")),
      Typed(PatIdent("payload"), TName("Ping")),
      Typed(PatIdent("name"), TName("String"))>>

App == ExprPath(<<"app">>)
StrLit(value) == ExprLit("Str", value)

\* Ping { n: 3 }
PingLiteral == ExprStruct(<<"Ping">>, <<ExprLit("Int", "3")>>)

\* the expressions passed as payload
Payloads ==
    {PingLiteral,
     ExprStruct(<<"models", "Ping">>, <<ExprLit("Int", "3")>>),
     ExprPath(<<"payload">>), ExprPath(<<"name">>), ExprPath(<<"local">>),
     ExprPath(<<"Status", "Ready">>),
     StrLit("simple string"), ExprLit("Int", "1"), ExprLit("Float", "1.5"),
     ExprLit("Bool", "true"),
     ExprMethodCall(ExprPath(<<"payload">>), "clone", <<>>),
     ExprMacro,
     ExprOther(<<ExprPath(<<"payload">>)>>)}

OptionalPayloads == {<<>>} \cup {<<x>> : x \in Payloads}

\* the expressions passed as event or window name
NameArgs ==
    {StrLit("ping"), StrLit("pong"), ExprPath(<<"name">>), ExprLit("Int", "7"),
     ExprMacro}

\* one emission with every combination of name and payload arguments, and
\* calls that only look like one
SingleCalls ==
    {ExprMethodCall(App, "emit", <<n>> \o p) : n \in NameArgs, p \in OptionalPayloads}
    \cup {ExprMethodCall(App, "emit_to", <<w, n>> \o p) :
             w \in {StrLit("main"), ExprPath(<<"label">>), ExprLit("Int", "0")},
             n \in {StrLit("ping"), ExprPath(<<"name">>)},
             p \in OptionalPayloads}
    \cup {ExprMethodCall(App, "emit", <<>>),
          ExprMethodCall(App, "emit_to", <<StrLit("main")>>),
          ExprMethodCall(App, "listen", <<StrLit("ping")>>),
          ExprMethodCall(ExprPath(<<"bus">>), "emit", <<StrLit("ping"), PingLiteral>>),
          \* app.emit("outer", window.emit("inner", 1))
          ExprMethodCall(App, "emit",
              <<StrLit("outer"),
                ExprMethodCall(ExprPath(<<"window">>), "emit",
                               <<StrLit("inner"), ExprLit("Int", "1")>>)>>),
          \* app.emit(name, 1).emit("second")
          ExprMethodCall(ExprMethodCall(App, "emit",
                                        <<ExprPath(<<"name">>), ExprLit("Int", "1")>>),
                         "emit", <<StrLit("second")>>)}

\* the statements of the longer bodies
RepeatedCalls ==
    {ExprMethodCall(App, "emit", <<StrLit("ping"), PingLiteral>>),
     ExprMethodCall(App, "emit", <<StrLit("ping"), ExprPath(<<"payload">>)>>),
     ExprMethodCall(App, "emit", <<StrLit("pong")>>),
     ExprMethodCall(App, "emit", <<ExprPath(<<"name">>), PingLiteral>>),
     ExprMethodCall(App, "emit", <<ExprLit("Int", "7"), PingLiteral>>),
     ExprMethodCall(App, "emit_to", <<StrLit("main"), StrLit("ping"), PingLiteral>>),
     ExprMethodCall(App, "emit_to",
                    <<StrLit("main"), StrLit("ping"), StrLit("simple string")>>),
     ExprMethodCall(App, "emit_to", <<StrLit("sub"), StrLit("ping")>>),
     ExprMethodCall(App, "emit_to",
                    <<ExprPath(<<"label">>), StrLit("ping"), PingLiteral>>),
     ExprMethodCall(App, "emit_to", <<StrLit("main"), ExprPath(<<"name">>)>>)}

\* call, or call.unwrap()
Statements(calls) ==
    calls \cup {ExprMethodCall(c, "unwrap", <<>>) : c \in calls}

\* use tauri::{AppHandle, WebviewWindow}; struct Ping; fn notify(..) { body }
EventModule(attrs, body) ==
    <<ItemUse(UsePath("tauri", UseGroup(<<UseName("AppHandle"),
                                          UseName("WebviewWindow")>>))),
      PingStruct,
      ItemFnBody("notify", attrs, EventFnInputs, ReturnDefault, body)>>

\* ---- modules whose command comes before the type it uses ----
\* #[tauri::command] fn early(app: tauri::AppHandle, a: Point) -> Point {
\*     app.emit("moved", Point { x: 1, y: 2 }) }
\* struct Point { x: i32, y: i32 }
ForwardModule(attrs) ==
    <<ItemFnBody("early", <<TauriCommand>>,
                 <<Typed(PatIdent("app"), TPath(<<"tauri", "AppHandle">>, <<>>)),
                   Typed(PatIdent("a"), TName("Point"))>>,
                 ReturnType(TName("Point")),
                 <<ExprMethodCall(App, "emit",
                       <<StrLit("moved"),
                         ExprStruct(<<"Point">>, <<ExprLit("Int", "1"),
                                                   ExprLit("Int", "2")>>)>>)>>),
      PointStruct(attrs)>>

\* the modules handed to the generator
IsModuleSource(its) ==
    \/ \E decls \in EligibilityDecls,
          shapes \in SeqsUpTo(EligibilityShapes, MaxParams),
          output \in EligibilityOutputs :
            its = EligibilityModule(decls, shapes, output)
    \/ \E preamble \in ContextPreambles,
          types \in SeqsUpTo(ContextParamTypes, MaxParams),
          output \in ContextOutputs :
            its = ContextModule(preamble, types, output)
    \/ \E preamble \in ContextPreambles,
          types \in SeqsUpTo(ResponseParamTypes, MaxParams),
          output \in ResponseOutputs :
            its = ResponseModule(preamble, types, output)
    \/ its \in TypeModules
    \/ \E ser \in BOOLEAN, de \in BOOLEAN : its = ForwardModule(DeriveFor(ser, de))
    \/ \E attrs \in {<<>>, <<TauriCommand>>}, stmt \in Statements(SingleCalls) :
            its = EventModule(attrs, <<stmt>>)
    \/ \E attrs \in {<<>>, <<TauriCommand>>}, body \in SeqsUpTo(RepeatedCalls, MaxCalls) :
            its = EventModule(attrs, body)

(***************************************************************************)
(* generate_ts_files, after syn::parse_file has returned the module's      *)
(* items: one step per extraction call.                                    *)
(***************************************************************************)
MapperIdle ==
    /\ ty = TUnit
    /\ defined_types = <<>>
    /\ is_tauri_command_type = FALSE
    /\ ts_type = NoResult

Init ==
    /\ MapperIdle
    /\ RunIdle
    /\ AliasIdle
    /\ IsModuleSource(items)
    /\ pc = "types"
    /\ all_extracted_types = <<>>
    /\ functions = <<>>
    /\ global_events = <<>>
    /\ window_events = <<>>
    /\ has_user_defined_types_in_commands = FALSE

\* let all_extracted_types = extract_and_convert_types(&syntax.items, ..)
ExtractTypes ==
    /\ pc = "types"
    /\ all_extracted_types' = extract_and_convert_types(items)
    /\ pc' = "commands"
    /\ UNCHANGED <<items, functions, global_events, window_events,
                   has_user_defined_types_in_commands>>
    /\ UNCHANGED mapper_vars
    /\ UNCHANGED run_vars
    /\ UNCHANGED alias_vars

\* ExtractCommands that hands over the types declared before the first
\* marked procedure only
ExtractCommands_TypesSoFar ==
    /\ pc = "commands"
    /\ LET first == CHOOSE i \in 1..(Len(items) + 1) :
                        /\ i <= Len(items) => IsCommand(items[i])
                        /\ \A j \in 1..(i - 1) : ~IsCommand(items[j])
       IN  functions' = extract_tauri_commands(
                            items, extract_and_convert_types(SubSeq(items, 1, first - 1)))
    /\ pc' = "events"
    /\ UNCHANGED <<items, all_extracted_types, global_events, window_events,
                   has_user_defined_types_in_commands>>
    /\ UNCHANGED mapper_vars
    /\ UNCHANGED run_vars
    /\ UNCHANGED alias_vars

\* let functions = extract_tauri_commands(&syntax.items, &all_extracted_types)
ExtractCommands ==
    /\ pc = "commands"
    /\ functions' = extract_tauri_commands(items, all_extracted_types)
    /\ pc' = "events"
    /\ UNCHANGED <<items, all_extracted_types, global_events, window_events,
                   has_user_defined_types_in_commands>>
    /\ UNCHANGED mapper_vars
    /\ UNCHANGED run_vars
    /\ UNCHANGED alias_vars

\* let (global_events, window_events) = extract_events(&syntax.items, &all_extracted_types)
ExtractEvents ==
    /\ pc = "events"
    /\ LET found == extract_events(items, all_extracted_types)
       IN  /\ global_events' = found.global_events
           /\ window_events' = found.window_events
    /\ pc' = "extracted"
    /\ UNCHANGED <<items, all_extracted_types, functions,
                   has_user_defined_types_in_commands>>
    /\ UNCHANGED mapper_vars
    /\ UNCHANGED run_vars
    /\ UNCHANGED alias_vars

Next == ExtractTypes \/ ExtractCommands \/ ExtractEvents

Spec == Init /\ [][Next]_vars

(***************************************************************************)
(* Specification of generate_ts_files up to the template context: after    *)
(* the three extraction calls the function returns when there is no        *)
(* command, and otherwise computes has_user_defined_types_in_commands.     *)
(***************************************************************************)
\* the index at which sep first occurs in s, 0 when it does not
IndexOf(s, sep) ==
    IF ContainsStr(s, sep)
    THEN CHOOSE i \in 1..Len(s) :
            /\ SubSeq(s, i, i + Len(sep) - 1) = sep
            /\ \A j \in 1..(i - 1) : SubSeq(s, j, j + Len(sep) - 1) # sep
    ELSE 0

\* s.split(sep).nth(1): the piece between the first and the second sep,
\* [found |-> FALSE] when s has no sep
SplitNth1(s, sep) ==
    LET first == IndexOf(s, sep)
        rest == SubSeq(s, first + Len(sep), Len(s))
        second == IndexOf(rest, sep)
    IN  IF first = 0 THEN [found |-> FALSE, text |-> ""]
        ELSE [found |-> TRUE,
              text |-> IF second = 0 THEN rest ELSE SubSeq(rest, 1, second - 1)]

\* s.trim_start_matches(prefix)
RECURSIVE trim_start_matches(_, _)
trim_start_matches(s, prefix) ==
    IF StartsWith(s, prefix)
    THEN trim_start_matches(SubSeq(s, Len(prefix) + 1, Len(s)), prefix)
    ELSE s

\* type_part.starts_with("T.") and the rest is the name of a type with
\* one of the two flags
IsExportedTypeText(type_part, infos) ==
    /\ StartsWith(type_part, "T.")
    /\ LET type_name == trim_start_matches(type_part, "T.")
       IN  \E i \in 1..Len(infos) :
               /\ infos[i].name = type_name
               /\ (infos[i].is_serializable \/ infos[i].is_deserializable)

\* the loop over the commands: the first argument or return type that
\* passes the test sets the flag
UserDefinedTypesInCommands(funcs, infos) ==
    \E k \in 1..Len(funcs) :
        \/ \E a \in 1..Len(funcs[k].args) :
              LET type_part == SplitNth1(funcs[k].args[a], ": ")
              IN  type_part.found /\ IsExportedTypeText(type_part.text, infos)
        \/ IsExportedTypeText(funcs[k].return_type, infos)

\* the types of the parameters and the return types of the commands
FlagParamTypes ==
    {TName("String"), TName("Point"), TRef(TName("Point")),
     TGen("Option", <<TName("Point")>>), TGen("Vec", <<TName("Point")>>),
     TGen("HashMap", <<TName("String"), TName("Point")>>),
     TPath(<<"tauri", "Window">>, <<>>)}

FlagOutputs ==
    {ReturnDefault}
    \cup {ReturnType(t) : t \in
            {TName("String"), TName("Point"), TGen("Option", <<TName("Point")>>),
             TGen("Result", <<TName("Point"), TName("String")>>),
             TGen("Vec", <<TName("Point")>>)}}

InitContext ==
    /\ MapperIdle
    /\ RunIdle
    /\ AliasIdle
    /\ \/ \E decls \in EligibilityDecls,
             types \in SeqsUpTo(FlagParamTypes, MaxParams),
             output \in FlagOutputs :
               items = EligibilityModule(decls, [i \in 1..Len(types) |-> Shape(types[i])],
                                         output)
       \/ items \in {ExtractionTestModule, <<>>}
    /\ pc = "types"
    /\ all_extracted_types = <<>>
    /\ functions = <<>>
    /\ global_events = <<>>
    /\ window_events = <<>>
    /\ has_user_defined_types_in_commands = FALSE

\* if functions.is_empty() { return Ok((false, ..)) }
ReturnWithoutCommands ==
    /\ pc = "extracted"
    /\ functions = <<>>
    /\ pc' = "returned"
    /\ UNCHANGED <<items, all_extracted_types, functions, global_events, window_events,
                   has_user_defined_types_in_commands>>
    /\ UNCHANGED mapper_vars
    /\ UNCHANGED run_vars
    /\ UNCHANGED alias_vars

\* context.insert("has_user_defined_types_in_commands", ..)
BuildContext ==
    /\ pc = "extracted"
    /\ functions # <<>>
    /\ has_user_defined_types_in_commands' =
          UserDefinedTypesInCommands(functions, all_extracted_types)
    /\ pc' = "context"
    /\ UNCHANGED <<items, all_extracted_types, functions, global_events, window_events>>
    /\ UNCHANGED mapper_vars
    /\ UNCHANGED run_vars
    /\ UNCHANGED alias_vars

NextContext ==
    ExtractTypes \/ ExtractCommands \/ ExtractEvents \/ ReturnWithoutCommands
        \/ BuildContext

SpecContext == InitContext /\ [][NextContext]_vars

(***************************************************************************)
(* Specification of the alias resolver alone: a module of use declarations *)
(* and a type path are drawn in the initial state; one step builds the     *)
(* alias map as extract_tauri_commands does, the next resolves the path as *)
(* is_ignored_tauri_type and is_tauri_ipc_response do.                     *)
(***************************************************************************)
\* the trees of the use declarations
UseTrees ==
    {\* use tauri::Window;
     UsePath("tauri", UseName("Window")),
     \* use my_tauri::Window;
     UsePath("my_tauri", UseName("Window")),
     \* use tauri::WebviewWindow as MyWindow;
     UsePath("tauri", UseRename("WebviewWindow", "MyWindow")),
     \* use tauri::*;
     UsePath("tauri", UseGlob),
     \* use tauri::{State, AppHandle as Handle, *};
     UsePath("tauri", UseGroup(<<UseName("State"), UseRename("AppHandle", "Handle"),
                                 UseGlob>>)),
     \* use tauri::{ipc::{Response, channel::{Channel as Chan, Sink}}, Emitter};
     UsePath("tauri",
         UseGroup(<<UsePath("ipc",
                        UseGroup(<<UseName("Response"),
                                   UsePath("channel",
                                       UseGroup(<<UseRename("Channel", "Chan"),
                                                  UseName("Sink")>>))>>)),
                    UseName("Emitter")>>)),
     \* use serde;
     UseName("serde"),
     \* use tauri as t;
     UseRename("tauri", "t"),
     \* use {a::X, b::X};
     UseGroup(<<UsePath("a", UseName("X")), UsePath("b", UseName("X"))>>),
     \* use tauri::{};
     UsePath("tauri", UseGroup(<<>>)),
     \* use *;
     UseGlob}

\* the type paths that are resolved
AliasProbes ==
    {TName("Window"), TName("MyWindow"), TName("WebviewWindow"), TName("Chan"),
     TName("Sink"), TName("X"), TName("t"),
     TPath(<<"tauri", "Window">>, <<>>),
     TPath(<<"MyWindow", "Inner">>, <<>>),
     TPath(<<"t", "Window">>, <<>>),
     TPath(<<"State">>, <<TName("X")>>)}

\* use declarations, with another item between them
UseModule(trees) ==
    IF trees = <<>> THEN <<ItemOther>>
    ELSE <<ItemUse(trees[1]), ItemOther>>
            \o [i \in 1..(Len(trees) - 1) |-> ItemUse(trees[i + 1])]

InitAliases ==
    /\ RunIdle
    /\ \E trees \in SeqsUpTo(UseTrees, MaxUses) : items = UseModule(trees)
    /\ pc = "idle"
    /\ all_extracted_types = <<>>
    /\ functions = <<>>
    /\ global_events = <<>>
    /\ window_events = <<>>
    /\ has_user_defined_types_in_commands = FALSE
    /\ ty \in AliasProbes
    /\ defined_types = <<>>
    /\ is_tauri_command_type = FALSE
    /\ ts_type = NoResult
    /\ alias_pc = "uses"
    /\ alias_map = EmptyMap
    /\ resolved_path = NoResult

\* let aliases = extract_use_aliases(items)
ExtractUseAliases ==
    /\ alias_pc = "uses"
    /\ alias_map' = extract_use_aliases(items)
    /\ alias_pc' = "path"
    /\ UNCHANGED resolved_path
    /\ UNCHANGED pipeline_vars
    /\ UNCHANGED mapper_vars
    /\ UNCHANGED run_vars

\* let final_path = if segments.len() == 1 { aliases.get(..) } else { .. }
ResolvePath ==
    /\ alias_pc = "path"
    /\ resolved_path' = FinalPath(ty, alias_map)
    /\ alias_pc' = "done"
    /\ UNCHANGED alias_map
    /\ UNCHANGED pipeline_vars
    /\ UNCHANGED mapper_vars
    /\ UNCHANGED run_vars

NextAliases == ExtractUseAliases \/ ResolvePath

SpecAliases == InitAliases /\ [][NextAliases]_vars

(***************************************************************************)
(* run_app: every .rs file of the input directory goes through             *)
(* generate_ts_files, in the order read_dir yields them (any order); the   *)
(* index files are written after the last one.                             *)
(***************************************************************************)
\* the characters of the model's names, in byte order
Alphabet == "0123456789ABCDEFGHIJKLMNOPQRSTUVWXYZ_abcdefghijklmnopqrstuvwxyz"
LowerCase == "abcdefghijklmnopqrstuvwxyz"
UpperCase == "ABCDEFGHIJKLMNOPQRSTUVWXYZ"

CharAt(s, i) == SubSeq(s, i, i)
Rank(c) == CHOOSE i \in 1..Len(Alphabet) : CharAt(Alphabet, i) = c

\* a < b for str (Ord for str: byte-wise lexicographic)
RECURSIVE StrLess(_, _)
StrLess(a, b) ==
    IF Len(b) = 0 THEN FALSE
    ELSE IF Len(a) = 0 THEN TRUE
    ELSE IF CharAt(a, 1) = CharAt(b, 1)
         THEN StrLess(SubSeq(a, 2, Len(a)), SubSeq(b, 2, Len(b)))
         ELSE Rank(CharAt(a, 1)) < Rank(CharAt(b, 1))

\* slice::sort / sort_by on the key Key(x): stable, ascending
RECURSIVE InsertSorted(_, _, _)
InsertSorted(sorted, x, keyOf) ==
    IF sorted = <<>> THEN <<x>>
    ELSE IF StrLess(keyOf[x], keyOf[Head(sorted)])
         THEN <<x>> \o sorted
         ELSE <<Head(sorted)>> \o InsertSorted(Tail(sorted), x, keyOf)

RECURSIVE SortedByKey(_, _)
SortedByKey(seq, keyOf) ==
    IF seq = <<>> THEN <<>>
    ELSE InsertSorted(SortedByKey(SubSeq(seq, 1, Len(seq) - 1), keyOf),
                      seq[Len(seq)], keyOf)

\* file_names.sort()
SortStrings(seq) ==
    SortedByKey(seq, [x \in {seq[i] : i \in 1..Len(seq)} |-> x])

\* all_ts_interfaces.sort_by(|a, b| a.name.cmp(&b.name))
SortByName(infos) ==
    SortedByKey(infos, [x \in {infos[i] : i \in 1..Len(infos)} |-> x.name])

ToUpper(c) ==
    IF \E i \in 1..Len(LowerCase) : CharAt(LowerCase, i) = c
    THEN CharAt(UpperCase, CHOOSE i \in 1..Len(LowerCase) : CharAt(LowerCase, i) = c)
    ELSE c

\* str::to_case(Case::Pascal), for stems made of lower-case words joined
\* by "_": the words are capitalized and joined
RECURSIVE PascalFrom(_, _)
PascalFrom(s, word_start) ==
    IF Len(s) = 0 THEN ""
    ELSE LET c == CharAt(s, 1)
             rest == SubSeq(s, 2, Len(s))
         IN  IF c = "_" THEN PascalFrom(rest, TRUE)
             ELSE (IF word_start THEN ToUpper(c) ELSE c) \o PascalFrom(rest, FALSE)

to_case_pascal(s) == PascalFrom(s, TRUE)

\* the text of a .rs file: the declarations written in it, and whether the
\* whole text is a well-formed module (syn::parse_file returns Ok)
Source(well_formed, its) == [well_formed |-> well_formed, items |-> its]

\* Err(e) of generate_ts_files: nothing is returned beside the error
ParseError ==
    [ok |-> FALSE, has_command |-> FALSE, types |-> <<>>, global_events |-> <<>>,
     window_events |-> <<>>, files |-> {}]

\* the files generate_ts_files writes for a module with commands
CommandFiles(file_name, generate_mock_api) ==
    LET pascal == to_case_pascal(file_name)
    IN  {"interface/commands/" \o pascal \o ".ts",
         "tauria-api/commands/" \o pascal \o ".ts"}
        \cup (IF generate_mock_api THEN {"mock-api/" \o pascal \o ".ts"} ELSE {})

\* generate_ts_files that takes a module without commands for a failure
GenerateFrom_CommandsRequired(its, file_name, generate_mock_api) ==
    LET types == extract_and_convert_types(its)
        commands == extract_tauri_commands(its, types)
        events == extract_events(its, types)
    IN  IF commands = <<>> THEN ParseError
        ELSE [ok |-> TRUE,
              has_command |-> TRUE,
              types |-> types,
              global_events |-> events.global_events,
              window_events |-> events.window_events,
              files |-> CommandFiles(file_name, generate_mock_api)]

\* generate_ts_files after syn::parse_file has returned Ok
GenerateFrom(its, file_name, generate_mock_api) ==
    LET types == extract_and_convert_types(its)
        commands == extract_tauri_commands(its, types)
        events == extract_events(its, types)
    IN  [ok |-> TRUE,
         has_command |-> commands # <<>>,
         types |-> types,
         global_events |-> events.global_events,
         window_events |-> events.window_events,
         files |-> IF commands = <<>> THEN {}
                   ELSE CommandFiles(file_name, generate_mock_api)]

\* generate_ts_files that goes on with what it could read of the text
generate_ts_files_NoParseCheck(source, file_name, generate_mock_api) ==
    GenerateFrom(source.items, file_name, generate_mock_api)

generate_ts_files(source, file_name, generate_mock_api) ==
    IF ~source.well_formed THEN ParseError
    ELSE GenerateFrom(source.items, file_name, generate_mock_api)

\* the declarations generate_user_types_index_file renders, in the order
\* of the list: those of the types with at least one of the two flags
ExportedTypes(infos) ==
    LET kept == SelectSeq(infos, LAMBDA info :
                    info.is_serializable \/ info.is_deserializable)
    IN  [i \in 1..Len(kept) |-> kept[i].ts_interface]

\* the files generate_user_types_index_file and generate_index_files write
IndexFiles(infos, generate_mock_api) ==
    (IF infos = <<>> THEN {} ELSE {"interface/types/index.ts"})
    \cup {"interface/index.ts", "tauria-api/index.ts", "index.ts"}
    \cup (IF generate_mock_api THEN {"mock-api/index.ts"} ELSE {})

FileStems == {"alpha", "beta", "my_cmd", "zeta"}

\* a module with a command, one with types only, one that only emits
CommandSource ==
    EligibilityModule(<<PointStruct(<<DeriveBoth>>), FooStruct>>,
                      <<Shape(TName("Point"))>>, ReturnType(TName("Foo")))
EmitterSource ==
    EventModule(<<>>, <<ExprMethodCall(App, "emit", <<StrLit("ping"), PingLiteral>>)>>)

\* struct Point { .. } without derives, and Foo { inner: Point, .. } with both
NestedSource == <<PointStruct(<<>>), FooStruct>>

RunSources ==
    {Source(TRUE, CommandSource), Source(FALSE, CommandSource),
     Source(TRUE, NestedSource),
     Source(TRUE, ExtractionTestModule), Source(FALSE, ExtractionTestModule),
     Source(TRUE, EmitterSource), Source(TRUE, <<>>), Source(FALSE, <<>>)}

InitRun ==
    /\ PipelineIdle
    /\ MapperIdle
    /\ AliasIdle
    /\ \E stems \in SUBSET FileStems :
          /\ Cardinality(stems) <= MaxFiles
          /\ directory \in [stems -> RunSources]
          /\ pending = stems
    /\ mock_api \in BOOLEAN
    /\ file_names = <<>>
    /\ all_ts_interfaces = <<>>
    /\ written = {}
    /\ types_index = <<>>
    /\ run_state = "reading"

\* one turn of the loop over read_dir
ProcessFile(f) ==
    /\ run_state = "reading"
    /\ f \in pending
    /\ pending' = pending \ {f}
    /\ LET result == generate_ts_files(directory[f], f, mock_api)
       IN  IF ~result.ok
           THEN /\ run_state' = "failed"
                /\ UNCHANGED <<file_names, all_ts_interfaces, written>>
           ELSE /\ all_ts_interfaces' = all_ts_interfaces \o result.types
                /\ file_names' = IF result.has_command THEN Append(file_names, f)
                                 ELSE file_names
                /\ written' = written \cup result.files
                /\ UNCHANGED run_state
    /\ UNCHANGED <<directory, mock_api, types_index>>
    /\ UNCHANGED pipeline_vars
    /\ UNCHANGED mapper_vars
    /\ UNCHANGED alias_vars

\* after the loop: the sorts and the index files
Finish ==
    /\ run_state = "reading"
    /\ pending = {}
    /\ file_names' = SortStrings(file_names)
    /\ all_ts_interfaces' = SortByName(all_ts_interfaces)
    /\ written' = written \cup IndexFiles(all_ts_interfaces', mock_api)
    /\ types_index' = ExportedTypes(all_ts_interfaces')
    /\ run_state' = "finished"
    /\ UNCHANGED <<directory, pending, mock_api>>
    /\ UNCHANGED pipeline_vars
    /\ UNCHANGED mapper_vars
    /\ UNCHANGED alias_vars

\* read_dir yields one of the remaining files
ProcessNext == \E f \in pending : ProcessFile(f)

NextRun == ProcessNext \/ Finish

SpecRun == InitRun /\ [][NextRun]_vars

(***************************************************************************)
(* Claims about the type mapper, checked under SpecMapper.                 *)
(***************************************************************************)
Mapped == ts_type # NoResult

ContainerIdents == {"Option", "Vec", "HashMap", "Result"}
PrimitiveIdents == {"String", "bool"} \cup NumberIdents

\* ty is `ident<first, ...>` with a type as first generic argument
IsGenericOf(t, ident) ==
    /\ t.kind = "Path"
    /\ t.segments # <<>>
    /\ Last(t.segments) = ident
    /\ t.arguments # <<>>
    /\ IsTypeArg(t.arguments[1])

\* C8 (as claimed): a list whose mapped element type contains a union
\* (" | ") is mapped to the parenthesized element type followed by "[]";
\* Vec<Option<u32>> gives "(number | undefined)[]".
C8_ListOfUnionParenthesized ==
    (Mapped /\ IsGenericOf(ty, "Vec")) =>
        LET inner == type_to_ts(ty.arguments[1], defined_types, is_tauri_command_type)
        IN  ContainsStr(inner, " | ") => ts_type = "(" \o inner \o ")[]"

\* C9 (as claimed): Option<Option<T>> is mapped to
\* "(map(T) | undefined) | undefined" for every T.
C9_NestedOptionParenthesized ==
    (Mapped /\ IsGenericOf(ty, "Option") /\ IsGenericOf(ty.arguments[1], "Option")) =>
        LET inner == type_to_ts(ty.arguments[1].arguments[1],
                                defined_types, is_tauri_command_type)
        IN  ts_type = "(" \o inner \o " | undefined) | undefined"

\* ty is a named type that is neither a primitive nor a recognized container
IsNamedType(t) ==
    /\ t.kind = "Path"
    /\ t.segments # <<>>
    /\ Last(t.segments) \notin PrimitiveIdents \cup ContainerIdents

\* C10: a named type that is neither a primitive nor a recognized container
\* is mapped to "T.<name>" when strict is true or the name is not in the
\* known-type set, and to the bare name only when strict is false and the
\* name is in the known-type set; so under strict (the command argument and
\* return positions) the result always carries the "T." marker.
C10_NamedTypeMarker ==
    (Mapped /\ IsNamedType(ty)) =>
        LET name == Last(ty.segments)
            known == \E i \in 1..Len(defined_types) : defined_types[i] = name
        IN  /\ (is_tauri_command_type \/ ~known) => ts_type = "T." \o name
            /\ (~is_tauri_command_type /\ known) => ts_type = name
            /\ is_tauri_command_type => StartsWith(ts_type, "T.")

\* C10 witnesses: a known name under strict=false came out bare
C10_Witness ==
    /\ Mapped
    /\ ty = TName("Foo")
    /\ defined_types = <<"Foo">>
    /\ ~is_tauri_command_type
    /\ ts_type = "Foo"

\* C11: String maps to "string", bool to "boolean" and each of u8, u16, u32,
\* u64, u128, usize, i8, i16, i32, i64, i128, isize, f32, f64 to "number",
\* whatever strict and the known-type set are.
C11_PrimitivesFixed ==
    (Mapped /\ ty.kind = "Path" /\ ty.segments # <<>>) =>
        LET ident == ty.segments[Len(ty.segments)]
        IN  /\ ident = "String" => ts_type = "string"
            /\ ident = "bool" => ts_type = "boolean"
            /\ ident \in {"u8", "u16", "u32", "u64", "u128", "usize",
                          "i8", "i16", "i32", "i64", "i128", "isize",
                          "f32", "f64"} => ts_type = "number"

\* C11 witness: i128 came out as "number" when not strict and with a
\* non-empty known-type set
C11_Witness ==
    /\ Mapped
    /\ ty = TName("i128")
    /\ ~is_tauri_command_type
    /\ defined_types = <<"Foo", "Bar">>
    /\ ts_type = "number"

\* ty is Result<T, E> with two type arguments
IsResultOfTwo(t) ==
    /\ IsGenericOf(t, "Result")
    /\ Len(t.arguments) = 2
    /\ IsTypeArg(t.arguments[2])

\* C12: Result<T, E> maps to exactly the mapping of T, and to the same text
\* whichever error type stands in place of E, for both values of strict.
C12_ResultMapsOkType ==
    (Mapped /\ IsResultOfTwo(ty)) =>
        /\ ts_type = type_to_ts(ty.arguments[1], defined_types, is_tauri_command_type)
        /\ \A e \in ErrorTypes :
              type_to_ts(TGen("Result", <<ty.arguments[1], e>>),
                         defined_types, is_tauri_command_type) = ts_type

\* C12 witness: Result<Foo, std::io::Error> under strict gave "T.Foo"
C12_Witness ==
    /\ Mapped
    /\ ty = TGen("Result", <<TName("Foo"), TPath(<<"std", "io", "Error">>, <<>>)>>)
    /\ is_tauri_command_type
    /\ ts_type = "T.Foo"

\* the container ident of a path whose first generic argument is no type
LacksFirstType(t, ident) ==
    /\ t.kind = "Path"
    /\ t.segments # <<>>
    /\ t.segments[Len(t.segments)] = ident
    /\ (t.arguments = <<>> \/ t.arguments[1].kind = "Lifetime")

\* C13: from every declared-type node the mapper can be applied and returns
\* a text; an unsupported node kind and an empty path give "any", an Option
\* or Result without a first type argument "any", such a Vec "any[]", a
\* HashMap without exactly two type arguments "Record<any, any>".
C13_AlwaysAString ==
    /\ (pc = "idle" /\ ~Mapped) => ENABLED ApplyTypeToTs
    /\ Mapped =>
          /\ ts_type \in STRING
          /\ Len(ts_type) > 0
          /\ ty.kind \notin {"Path", "Reference", "Tuple"} => ts_type = "any"
          /\ (ty.kind = "Path" /\ ty.segments = <<>>) => ts_type = "any"
          /\ LacksFirstType(ty, "Option") => ts_type = "any"
          /\ LacksFirstType(ty, "Result") => ts_type = "any"
          /\ LacksFirstType(ty, "Vec") => ts_type = "any[]"
          /\ (/\ ty.kind = "Path"
              /\ ty.segments # <<>>
              /\ ty.segments[Len(ty.segments)] = "HashMap"
              /\ \/ Len(ty.arguments) # 2
                 \/ \E i \in 1..2 : ty.arguments[i].kind = "Lifetime")
             => ts_type = "Record<any, any>"

\* C13 witness: a HashMap with one generic argument inside a Vec fell back
C13_Witness ==
    /\ Mapped
    /\ ty = TGen("Vec", <<TGen("HashMap", <<TName("String")>>)>>)
    /\ ts_type = "Record<any, any>[]"

(***************************************************************************)
(* Claims about the command modeler, checked under Spec.                   *)
(***************************************************************************)
\* the command descriptors have been produced
CommandsDone == pc \in {"events", "extracted"}

\* the marked procedures of the module, in declaration order
MarkedFns == SelectSeq(items, IsCommand)

\* every marked procedure has its descriptor, at its own position
OnePerMarkedFn == Len(functions) = Len(MarkedFns)

\* the names a declared type mentions: its head name and, through
\* reference, tuple and generic-argument positions, those of its parts
RECURSIVE MentionedNames(_)
MentionedNames(t) ==
    CASE t.kind = "Path" ->
           (IF t.segments = <<>> THEN {} ELSE {Last(t.segments)})
           \cup UNION {MentionedNames(t.arguments[i]) :
                          i \in {j \in 1..Len(t.arguments) : IsTypeArg(t.arguments[j])}}
      [] t.kind = "Reference" -> MentionedNames(t.elem)
      [] t.kind = "Tuple" -> UNION {MentionedNames(t.elems[i]) : i \in 1..Len(t.elems)}
      [] OTHER -> {}

\* the known user-defined types without the deserializable / serializable flag
NotDeserializable ==
    {all_extracted_types[i].name : i \in
        {j \in 1..Len(all_extracted_types) : ~all_extracted_types[j].is_deserializable}}
NotSerializable ==
    {all_extracted_types[i].name : i \in
        {j \in 1..Len(all_extracted_types) : ~all_extracted_types[j].is_serializable}}

\* the text of a "name: ..." entry before its first ": "
EntryName(e) ==
    LET at == CHOOSE i \in 1..Len(e) :
                  /\ SubSeq(e, i, i + 1) = ": "
                  /\ \A j \in 1..(i - 1) : SubSeq(e, j, j + 1) # ": "
    IN  SubSeq(e, 1, at - 1)
EntryNames(entries) == [i \in 1..Len(entries) |-> EntryName(entries[i])]

\* the typed parameters of a procedure and their display names
TypedInputs(f) == SelectSeq(f.inputs, LAMBDA x : x.kind = "Typed")
DeclaredNames(f) == [i \in 1..Len(TypedInputs(f)) |-> ArgName(TypedInputs(f)[i].pat)]

\* sub is seq with some entries left out, the others in their order
IsOrderedSelection(sub, seq) ==
    sub = SelectSeq(seq, LAMBDA x : \E i \in 1..Len(sub) : sub[i] = x)

MentionsNotDeserializable(t) == MentionedNames(t) \cap NotDeserializable # {}
MentionsNotSerializable(t) == MentionedNames(t) \cap NotSerializable # {}

\* C1: for every marked command, a parameter whose declared type mentions
\* (head name, reference, tuple or generic-argument position) a known type
\* that is not deserializable has no entry in args nor in invoke_args, and
\* the kept parameters appear in declaration order.
C1_IneligibleParamsDropped ==
    CommandsDone =>
        /\ OnePerMarkedFn
        /\ \A k \in 1..Len(MarkedFns) :
              LET f == MarkedFns[k]
                  c == functions[k]
              IN  /\ \A i \in 1..Len(f.inputs) :
                        (/\ f.inputs[i].kind = "Typed"
                         /\ f.inputs[i].pat.kind = "Ident"
                         /\ MentionsNotDeserializable(f.inputs[i].ty))
                        => /\ ~Contains(EntryNames(c.args), f.inputs[i].pat.ident)
                           /\ ~Contains(EntryNames(c.invoke_args), f.inputs[i].pat.ident)
                  /\ IsOrderedSelection(EntryNames(c.args), DeclaredNames(f))
                  /\ IsOrderedSelection(EntryNames(c.invoke_args), DeclaredNames(f))

\* C1 witness: `a: Option<Point>` with Point not deserializable was dropped
\* and `b: String` was kept
C1_Witness ==
    /\ CommandsDone
    /\ "Point" \in NotDeserializable
    /\ \E k \in 1..Len(MarkedFns) :
          /\ Len(MarkedFns[k].inputs) = 2
          /\ MarkedFns[k].inputs[1] = Typed(PatIdent("a"), TGen("Option", <<TName("Point")>>))
          /\ functions[k].args = <<"b: string">>
          /\ functions[k].invoke_args = <<"b: b">>

\* C2: in every command descriptor args and invoke_args have the same
\* length and, index by index, args[i] is "n: <type>" and invoke_args[i] is
\* "n: n" for the same parameter name n (of a declared parameter, <type>
\* being the strict mapping of its type).
C2_ArgsParallel ==
    CommandsDone =>
        /\ OnePerMarkedFn
        /\ \A k \in 1..Len(MarkedFns) :
              LET f == MarkedFns[k]
                  c == functions[k]
              IN  /\ Len(c.args) = Len(c.invoke_args)
                  /\ \A i \in 1..Len(c.args) :
                        \E j \in 1..Len(TypedInputs(f)) :
                            LET n == DeclaredNames(f)[j]
                            IN  /\ c.args[i] = n \o ": " \o
                                       type_to_ts(TypedInputs(f)[j].ty,
                                                  TypeNames(all_extracted_types), TRUE)
                                /\ c.invoke_args[i] = n \o ": " \o n

\* C2 witness: one context parameter dropped, one ineligible parameter
\* dropped or kept next to it
C2_Witness ==
    /\ CommandsDone
    /\ "Point" \notin NotDeserializable
    /\ \E k \in 1..Len(MarkedFns) :
          /\ Len(MarkedFns[k].inputs) = 2
          /\ MarkedFns[k].inputs[1].ty = TPath(<<"tauri", "Window">>, <<>>)
          /\ functions[k].args = <<"b: T.Point">>
          /\ functions[k].invoke_args = <<"b: b">>

\* the descriptor of the same procedure declared without a return type
WithoutOutput(f) == [f EXCEPT !.output = ReturnDefault]

IsUnitResult(t) ==
    /\ t.kind = "Path"
    /\ t.segments # <<>>
    /\ Last(t.segments) = "Result"
    /\ Len(t.arguments) = 2
    /\ t.arguments[1] = TUnit
    /\ IsTypeArg(t.arguments[2])

\* C4 (as claimed): a marked command returning Result<(), E> has return_type
\* "void" for every error-arm type E.
C4_UnitResultIsVoid ==
    CommandsDone =>
        \A k \in 1..Len(MarkedFns) :
            (MarkedFns[k].output.kind = "Type" /\ IsUnitResult(MarkedFns[k].output.ty))
            => functions[k].return_type = "void"

\* the (local name, full path) pairs the leaves of a use tree bring in
RECURSIVE UseLeaves(_, _)
UseLeaves(tree, prefix) ==
    CASE tree.kind = "Path" -> UseLeaves(tree.tree, Append(prefix, tree.ident))
      [] tree.kind = "Name" ->
           {<<tree.ident, Join(Append(prefix, tree.ident), "::")>>}
      [] tree.kind = "Rename" ->
           {<<tree.rename, Join(Append(prefix, tree.ident), "::")>>}
      [] tree.kind = "Group" ->
           UNION {UseLeaves(tree.items[i], prefix) : i \in 1..Len(tree.items)}
      [] OTHER -> {}

\* what the module's use declarations import
Imports ==
    UNION {UseLeaves(items[i].tree, <<>>) :
              i \in {j \in 1..Len(items) : items[j].kind = "Use"}}

\* the paths a declared type stands for: a path of several segments stands
\* for itself, a single-segment name for what a use declaration imports it
\* as (for itself when none does), a reference for what its referent does
RECURSIVE CanonicalPaths(_)
CanonicalPaths(t) ==
    CASE t.kind = "Path" ->
           IF Len(t.segments) = 1
           THEN LET imported == {l[2] : l \in {m \in Imports : m[1] = t.segments[1]}}
                IN  IF imported = {} THEN {t.segments[1]} ELSE imported
           ELSE {Join(t.segments, "::")}
      [] t.kind = "Reference" -> CanonicalPaths(t.elem)
      [] OTHER -> {}

\* the declared type is the response wrapper
IsResponseWrapper(t) == "tauri::ipc::Response" \in CanonicalPaths(t)

\* C5: a marked command whose declared return type is tauri::ipc::Response
\* (full path, a single-segment name imported or renamed to it, or a
\* reference to either) has return_type "unknown"; any other return type
\* (tauri::Response, String, ...) is not treated as the wrapper: unless it
\* mentions a type that is not serializable, its return_type is its strict
\* mapping, which is not "unknown".
C5_ResponseWrapperIsUnknown ==
    CommandsDone =>
        /\ OnePerMarkedFn
        /\ \A k \in 1..Len(MarkedFns) :
              LET out == MarkedFns[k].output
                  c == functions[k]
              IN  out.kind = "Type" =>
                    /\ IsResponseWrapper(out.ty) => c.return_type = "unknown"
                    /\ (~IsResponseWrapper(out.ty) /\ ~MentionsNotSerializable(out.ty))
                       => /\ c.return_type =
                                type_to_ts(out.ty, TypeNames(all_extracted_types), TRUE)
                          /\ c.return_type # "unknown"

\* C5 witness: -> IpcResponse under `use tauri::ipc::Response as IpcResponse`
C5_Witness ==
    /\ CommandsDone
    /\ <<"IpcResponse", "tauri::ipc::Response">> \in Imports
    /\ \E k \in 1..Len(MarkedFns) :
          /\ MarkedFns[k].output = ReturnType(TName("IpcResponse"))
          /\ functions[k].return_type = "unknown"

\* the declared type is one of the four framework context types
IsContextType(t) == CanonicalPaths(t) \cap IGNORED_TAURI_TYPES # {}

\* the declared type's canonical path begins with the text "tauri::State"
BeginsLikeState(t) == \E path \in CanonicalPaths(t) : StartsWith(path, "tauri::State")

\* the display names of the typed parameters whose position keep marks
NamesOfKept(f, keep) ==
    LET ins == TypedInputs(f)
        RECURSIVE From(_)
        From(i) == IF i > Len(ins) THEN <<>>
                   ELSE (IF keep[i] THEN <<ArgName(ins[i].pat)>> ELSE <<>>) \o From(i + 1)
    IN  From(1)

\* C6 (as claimed): the parameters of a context type are absent from args
\* and invoke_args and every other eligible parameter is kept, under its
\* name, at the index it has among the kept ones.
C6_OnlyContextTypesDropped ==
    CommandsDone =>
        /\ OnePerMarkedFn
        /\ \A k \in 1..Len(MarkedFns) :
              LET ins == TypedInputs(MarkedFns[k])
                  keep == [i \in 1..Len(ins) |->
                              /\ ~IsContextType(ins[i].ty)
                              /\ ~MentionsNotDeserializable(ins[i].ty)]
                  names == NamesOfKept(MarkedFns[k], keep)
              IN  /\ EntryNames(functions[k].args) = names
                  /\ EntryNames(functions[k].invoke_args) = names

\* C6 (amended): as C6, except that a parameter whose canonical path begins
\* with the text "tauri::State" (tauri::StateMachine, or a name aliased to
\* it) is dropped like the State container itself.
C6_ContextAndStatePrefixDropped ==
    CommandsDone =>
        /\ OnePerMarkedFn
        /\ \A k \in 1..Len(MarkedFns) :
              LET ins == TypedInputs(MarkedFns[k])
                  keep == [i \in 1..Len(ins) |->
                              /\ ~IsContextType(ins[i].ty)
                              /\ ~BeginsLikeState(ins[i].ty)
                              /\ ~MentionsNotDeserializable(ins[i].ty)]
                  names == NamesOfKept(MarkedFns[k], keep)
              IN  /\ EntryNames(functions[k].args) = names
                  /\ EntryNames(functions[k].invoke_args) = names

\* C6 witness: (a: MyWindow, b: String) under
\* `use tauri::{WebviewWindow as MyWindow, ..}` left b alone, at index 0
C6_Witness ==
    /\ CommandsDone
    /\ <<"MyWindow", "tauri::WebviewWindow">> \in Imports
    /\ \E k \in 1..Len(MarkedFns) :
          /\ MarkedFns[k].inputs = <<Typed(PatIdent("a"), TName("MyWindow")),
                                     Typed(PatIdent("b"), TName("String"))>>
          /\ functions[k].args = <<"b: string">>
          /\ functions[k].invoke_args = <<"b: b">>

TypesDone == pc # "types"

\* the struct and enum declarations of the module, in declaration order
DeclaredTypes == SelectSeq(items, LAMBDA it : it.kind \in {"Struct", "Enum"})

\* some derive attribute lists a path whose last segment is macro_name
DeriveLists(attrs, macro_name) ==
    \E i \in 1..Len(attrs) :
        /\ attrs[i].path = <<"derive">>
        /\ \E j \in 1..Len(attrs[i].meta.paths) :
              LET listed == attrs[i].meta.paths[j]
              IN  listed[Len(listed)] = macro_name

EventsDone == pc = "extracted"

\* the method calls of an expression, each before the calls of its receiver
\* and those before the calls of its arguments
RECURSIVE CallsOf(_)
RECURSIVE CallsOfAll(_)
CallsOf(e) ==
    CASE e.kind = "MethodCall" -> <<e>> \o CallsOf(e.receiver) \o CallsOfAll(e.args)
      [] e.kind = "Struct" -> CallsOfAll(e.fields)
      [] e.kind = "Other" -> CallsOfAll(e.children)
      [] OTHER -> <<>>

CallsOfAll(es) == IF es = <<>> THEN <<>> ELSE CallsOf(Head(es)) \o CallsOfAll(Tail(es))

\* the calls of the module in traversal order, each with the parameters of
\* the procedure it stands in
RECURSIVE CallsFrom(_)
CallsFrom(i) ==
    IF i > Len(items) THEN <<>>
    ELSE (IF items[i].kind = "Fn"
          THEN LET calls == CallsOfAll(items[i].body)
               IN  [k \in 1..Len(calls) |-> [call |-> calls[k], inputs |-> items[i].inputs]]
          ELSE <<>>) \o CallsFrom(i + 1)

IsStringLiteral(e) == e.kind = "Lit" /\ e.lit = "Str"

\* the emit calls whose first argument is a string literal
GlobalCalls ==
    SelectSeq(CallsFrom(1), LAMBDA c :
        /\ c.call.method = "emit"
        /\ Len(c.call.args) >= 1
        /\ IsStringLiteral(c.call.args[1]))

\* the emit_to calls whose first two arguments are string literals
WindowCalls ==
    SelectSeq(CallsFrom(1), LAMBDA c :
        /\ c.call.method = "emit_to"
        /\ Len(c.call.args) >= 2
        /\ IsStringLiteral(c.call.args[1])
        /\ IsStringLiteral(c.call.args[2]))

\* the arguments after the name arguments: <<>> or <<payload, ...>>
PayloadArgs(c) ==
    LET names == IF c.call.method = "emit" THEN 1 ELSE 2
    IN  SubSeq(c.call.args, names + 1, Len(c.call.args))

\* each recorded entry beside the call it was recorded for
Recorded ==
    {[inputs |-> GlobalCalls[i].inputs, payload |-> PayloadArgs(GlobalCalls[i]),
      payload_type |-> global_events[i].payload_type] :
        i \in 1..Len(GlobalCalls)}
    \cup {[inputs |-> WindowCalls[i].inputs, payload |-> PayloadArgs(WindowCalls[i]),
           payload_type |-> window_events[i].payload_type] :
             i \in 1..Len(WindowCalls)}

\* one entry per recordable call
EntryPerCall ==
    /\ Len(global_events) = Len(GlobalCalls)
    /\ Len(window_events) = Len(WindowCalls)

KnownNames == TypeNames(all_extracted_types)

\* C14: a body whose one call is emit("ping", Ping { n: 3 }) gives exactly
\* one global event, "ping", whose payload_type is the strict mapping of
\* Ping; in general a struct-literal payload gives the strict mapping of the
\* literal's named type.
C14_StructLiteralPayload ==
    EventsDone =>
        /\ EntryPerCall
        /\ (/\ Len(CallsFrom(1)) = 1
            /\ CallsFrom(1)[1].call = ExprMethodCall(App, "emit", <<StrLit("ping"), PingLiteral>>))
           => /\ global_events =
                    <<[event_name |-> "ping",
                       payload_type |-> type_to_ts(TName("Ping"), KnownNames, TRUE)]>>
              /\ window_events = <<>>
        /\ \A r \in Recorded :
              (r.payload # <<>> /\ r.payload[1].kind = "Struct") =>
                  r.payload_type =
                      type_to_ts(TPath(r.payload[1].segments, <<>>), KnownNames, TRUE)

\* C14 witness: the scenario's body gave the one event "ping" of type T.Ping
C14_Witness ==
    /\ EventsDone
    /\ Len(CallsFrom(1)) = 1
    /\ CallsFrom(1)[1].call = ExprMethodCall(App, "emit", <<StrLit("ping"), PingLiteral>>)
    /\ global_events = <<[event_name |-> "ping", payload_type |-> "T.Ping"]>>

\* C15: an emit call is recorded only if its first argument is a string
\* literal, an emit_to call only if its first two are; any other call leaves
\* no entry and no error, and the calls around it are still recorded.
C15_OnlyLiteralNamesRecorded ==
    /\ pc = "events" => ENABLED ExtractEvents
    /\ EventsDone =>
          /\ EntryPerCall
          /\ \A i \in 1..Len(global_events) :
                global_events[i].event_name = GlobalCalls[i].call.args[1].value
          /\ \A i \in 1..Len(window_events) :
                /\ window_events[i].window_name = WindowCalls[i].call.args[1].value
                /\ window_events[i].event_name = WindowCalls[i].call.args[2].value

\* C15 witness: emit(name, ..) left nothing and the emit("pong") after it
\* was recorded
C15_Witness ==
    /\ EventsDone
    /\ Len(CallsFrom(1)) = 2
    /\ CallsFrom(1)[1].call =
          ExprMethodCall(App, "emit", <<ExprPath(<<"name">>), PingLiteral>>)
    /\ global_events = <<[event_name |-> "pong", payload_type |-> "void"]>>
    /\ window_events = <<>>

\* the declared type of the parameter called name, as <<>> or <<type>>
ParamType(inputs, name) ==
    LET found == SelectSeq(inputs, LAMBDA x :
                     x.kind = "Typed" /\ x.pat.kind = "Ident" /\ x.pat.ident = name)
    IN  IF found = <<>> THEN <<>> ELSE <<found[1].ty>>

\* C16 (as claimed): a payload that is a bare variable naming a parameter of
\* the enclosing procedure is recorded with the strict mapping of that
\* parameter's declared type.
C16_VariablePayloadIsParamType ==
    EventsDone =>
        \A r \in Recorded :
            (/\ r.payload # <<>>
             /\ r.payload[1].kind = "Path"
             /\ Len(r.payload[1].segments) = 1
             /\ ParamType(r.inputs, r.payload[1].segments[1]) # <<>>)
            => r.payload_type =
                  type_to_ts(ParamType(r.inputs, r.payload[1].segments[1])[1],
                             KnownNames, TRUE)

\* C17 (as claimed): a primitive literal payload is recorded as its kind:
\* "string", "number" or "boolean".
C17_LiteralPayloadIsItsKind ==
    EventsDone =>
        \A r \in Recorded :
            (r.payload # <<>> /\ r.payload[1].kind = "Lit") =>
                r.payload_type =
                    CASE r.payload[1].lit = "Str" -> "string"
                      [] r.payload[1].lit \in {"Int", "Float"} -> "number"
                      [] r.payload[1].lit = "Bool" -> "boolean"

\* C18 (as claimed): a payload that is neither a variable, a struct literal
\* nor a primitive literal is recorded as exactly "any"; an absent payload
\* as "void".
C18_OtherPayloadIsAny ==
    EventsDone =>
        \A r \in Recorded :
            /\ (r.payload # <<>> /\ r.payload[1].kind \notin {"Path", "Struct", "Lit"})
               => r.payload_type = "any"
            /\ r.payload = <<>> => r.payload_type = "void"

\* the (window, event) names of the recordable calls and of the entries
NamesOfCalls(calls, n) ==
    [i \in 1..Len(calls) |-> [k \in 1..n |-> calls[i].call.args[k].value]]

\* how many elements of seq are x
Count(seq, x) == Cardinality({i \in 1..Len(seq) : seq[i] = x})

\* C19: every emission is kept: a name emitted k times has k entries, and
\* the entries stand in the order the traversal meets the calls.
C19_EveryEmissionKept ==
    EventsDone =>
        LET global_names == [i \in 1..Len(global_events) |-> <<global_events[i].event_name>>]
            window_names == [i \in 1..Len(window_events) |->
                                <<window_events[i].window_name, window_events[i].event_name>>]
            global_calls == NamesOfCalls(GlobalCalls, 1)
            window_calls == NamesOfCalls(WindowCalls, 2)
        IN  /\ global_names = global_calls
            /\ window_names = window_calls
            /\ \A i \in 1..Len(global_calls) :
                  Count(global_names, global_calls[i]) = Count(global_calls, global_calls[i])
            /\ \A i \in 1..Len(window_calls) :
                  Count(window_names, window_calls[i]) = Count(window_calls, window_calls[i])

\* C19 witness: "ping" emitted twice, with different payloads, gave two
\* entries in the order of the calls
C19_Witness ==
    /\ EventsDone
    /\ Len(global_events) = 2
    /\ global_events[1].event_name = "ping"
    /\ global_events[2].event_name = "ping"
    /\ global_events[1].payload_type = "T.Ping"
    /\ global_events[2].payload_type # "T.Ping"

(***************************************************************************)
(* Claims about the run over a directory, checked under SpecRun.           *)
(***************************************************************************)
\* the files read_dir has yielded
Yielded == DOMAIN directory \ pending

Malformed(f) == ~directory[f].well_formed

\* the struct and enum declarations written in the files of S
RECURSIVE DeclsIn(_)
DeclsIn(S) ==
    IF S = {} THEN 0
    ELSE LET f == CHOOSE x \in S : TRUE
         IN  Len(SelectSeq(directory[f].items, LAMBDA it : it.kind \in {"Struct", "Enum"}))
             + DeclsIn(S \ {f})

\* the files that carry the module's name
FilesNamedAfter(f) ==
    {dir \o to_case_pascal(f) \o ".ts" :
        dir \in {"interface/commands/", "tauria-api/commands/", "mock-api/"}}

AllIndexFiles ==
    {"interface/types/index.ts", "interface/index.ts", "tauria-api/index.ts",
     "index.ts", "mock-api/index.ts"}

\* C20: a module whose source is not well-formed yields an error and no
\* types, commands or files; the run then stops with an error, processes no
\* further module and writes no index file.
C20_ParseFailureStopsRun ==
    /\ (\E f \in Yielded : Malformed(f)) <=> run_state = "failed"
    /\ \A f \in DOMAIN directory :
          Malformed(f) =>
              /\ FilesNamedAfter(f) \cap written = {}
              /\ \A i \in 1..Len(file_names) : file_names[i] # f
    /\ Len(all_ts_interfaces) = DeclsIn({f \in Yielded : ~Malformed(f)})
    /\ run_state = "failed" =>
          /\ ~ENABLED NextRun
          /\ written \cap AllIndexFiles = {}

\* C20 witness: the run failed on a file holding a command and two types,
\* with another file still unread
C20_Witness ==
    /\ run_state = "failed"
    /\ pending # {}
    /\ \E f \in Yielded : directory[f] = Source(FALSE, CommandSource)
    /\ all_ts_interfaces = <<>>
    /\ written = {}

\* the procedures of a module that carry the command marker
MarkedIn(its) == SelectSeq(its, LAMBDA it : it.kind = "Fn" /\ has_tauri_command(it.attrs))

\* the names of the struct and enum declarations of a module, in order
DeclNamesOf(its) ==
    LET decls == SelectSeq(its, LAMBDA it : it.kind \in {"Struct", "Enum"})
    IN  [i \in 1..Len(decls) |-> decls[i].ident]

\* position i of all_ts_interfaces onwards holds the entries seq, in order
HoldsRun(all, seq) ==
    \E k \in 0..(Len(all) - Len(seq)) : SubSeq(all, k + 1, k + Len(seq)) = seq

\* a well-formed module without a marked procedure
HasNoCommand(source) == source.well_formed /\ MarkedIn(source.items) = <<>>

\* what generate_ts_files returns for the modules without a command that
\* the run has read, and what the run kept of them
NoCommandResults ==
    \A f \in Yielded :
        LET source == directory[f]
            types == extract_and_convert_types(source.items)
            result == generate_ts_files(source, f, mock_api)
        IN  HasNoCommand(source) =>
                /\ extract_tauri_commands(source.items, types) = <<>>
                /\ result.ok
                /\ ~result.has_command
                /\ TypeNames(result.types) = DeclNamesOf(source.items)
                /\ result.types = types
                /\ [global_events |-> result.global_events,
                    window_events |-> result.window_events]
                       = extract_events(source.items, types)
                /\ result.files = {}
                /\ FilesNamedAfter(f) \cap written = {}
                /\ \A i \in 1..Len(file_names) : file_names[i] # f
                /\ run_state = "failed" => \E g \in Yielded : Malformed(g)
                /\ run_state = "reading" => HoldsRun(all_ts_interfaces, types)

\* the turn of the loop that reads a module without a command: its types
\* are added, nothing is written, and the loop goes on
NoCommandTurn ==
    \A f \in pending :
        (f \notin pending' /\ HasNoCommand(directory[f])) =>
            /\ run_state' = "reading"
            /\ all_ts_interfaces' =
                  all_ts_interfaces \o extract_and_convert_types(directory[f].items)
            /\ file_names' = file_names
            /\ written' = written
            /\ pending' = pending \ {f}

\* C21: a well-formed module without a marked procedure gives an empty
\* command list; generate_ts_files returns Ok with has_command = false, the
\* module's complete type list and its event lists, and writes no command
\* file; the run does not fail on it and goes on with the next module.
C21_NoCommandModuleIsOk == []NoCommandResults /\ [][NoCommandTurn]_vars

\* C21 witness: the run went through a module that only emits and a module
\* with a command, and finished with the index files written
C21_Witness ==
    /\ run_state = "finished"
    /\ \E f \in Yielded : directory[f] = Source(TRUE, EmitterSource)
    /\ \E f \in Yielded : directory[f] = Source(TRUE, CommandSource)
    /\ Len(file_names) = 1
    /\ Len(all_ts_interfaces) = 3
    /\ "index.ts" \in written

(***************************************************************************)
(* Claims about the type model and the use of it, checked under Spec.      *)
(***************************************************************************)
\* the declarations decls in the order perm puts them
Reordered(decls, perm) == [i \in 1..Len(decls) |-> decls[perm[i]]]

\* the shape the type model gives the type called name
ShapeOf(infos, name) ==
    LET i == CHOOSE k \in 1..Len(infos) : infos[k].name = name
    IN  infos[i].ts_interface

\* C22: the type model does not depend on the order of the declarations: in
\* every order of the module's struct and enum declarations each type gets
\* the same shape, so a field whose type is another struct of the module
\* is mapped to the same string whether that struct comes before or after.
C22_DeclarationOrderIrrelevant ==
    TypesDone =>
        \A perm \in Permutations(1..Len(DeclaredTypes)) :
            LET model == extract_and_convert_types(Reordered(DeclaredTypes, perm))
            IN  \A i \in 1..Len(DeclaredTypes) :
                    ShapeOf(model, DeclaredTypes[i].ident)
                        = ShapeOf(all_extracted_types, DeclaredTypes[i].ident)

\* the types written in the fields of a struct or the variants of an enum
MemberTypes(decl) ==
    IF decl.kind = "Struct"
    THEN {decl.fields.members[i].ty : i \in 1..Len(decl.fields.members)}
    ELSE UNION {{decl.variants[v].fields.members[i].ty :
                    i \in 1..Len(decl.variants[v].fields.members)} :
                v \in 1..Len(decl.variants)}

\* the names mentioned by the members of the declared types called names
NamesBehind(names) ==
    UNION {UNION {MentionedNames(t) : t \in MemberTypes(DeclaredTypes[i])} :
           i \in {j \in 1..Len(DeclaredTypes) : DeclaredTypes[j].ident \in names}}

\* the names reached from names in at most n steps through members
RECURSIVE ReachedWithin(_, _)
ReachedWithin(names, n) ==
    IF n = 0 THEN names
    ELSE ReachedWithin(names \cup NamesBehind(names), n - 1)

\* the names a declared type mentions, and those reached through the
\* fields and variants of the types it mentions
ReachableNames(t) == ReachedWithin(MentionedNames(t), Len(DeclaredTypes))

\* the parameter i of f is named by an identifier and has an entry in args
IsKeptParam(f, c, i) ==
    /\ f.inputs[i].kind = "Typed"
    /\ f.inputs[i].pat.kind = "Ident"
    /\ Contains(EntryNames(c.args), f.inputs[i].pat.ident)

\* C23 (as claimed): a kept argument reaches, also through the fields and
\* variants of the types it names, only deserializable known types; a
\* return type other than "unknown" reaches only serializable ones.
C23_ReachableTypesEligible ==
    CommandsDone =>
        /\ OnePerMarkedFn
        /\ \A k \in 1..Len(MarkedFns) :
              LET f == MarkedFns[k]
                  c == functions[k]
              IN  /\ \A i \in 1..Len(f.inputs) :
                        IsKeptParam(f, c, i) =>
                            ReachableNames(f.inputs[i].ty) \cap NotDeserializable = {}
                  /\ (f.output.kind = "Type" /\ c.return_type # "unknown") =>
                        ReachableNames(f.output.ty) \cap NotSerializable = {}

\* C23 (amended): a kept argument mentions, through reference, tuple and
\* generic-argument positions of its declared type, only deserializable
\* known types, and a return type other than "unknown" mentions only
\* serializable ones; the members of the mentioned types are not looked at.
C23_MentionedTypesEligible ==
    CommandsDone =>
        /\ OnePerMarkedFn
        /\ \A k \in 1..Len(MarkedFns) :
              LET f == MarkedFns[k]
                  c == functions[k]
              IN  /\ \A i \in 1..Len(f.inputs) :
                        IsKeptParam(f, c, i) =>
                            MentionedNames(f.inputs[i].ty) \cap NotDeserializable = {}
                  /\ (f.output.kind = "Type" /\ c.return_type # "unknown") =>
                        MentionedNames(f.output.ty) \cap NotSerializable = {}

\* C23 witness: (a: Foo) -> Foo with Foo carrying both flags was kept as it
\* is, although Foo.inner is a Point without any flag
C23_Witness ==
    /\ CommandsDone
    /\ "Point" \in NotDeserializable \cap NotSerializable
    /\ "Point" \in ReachableNames(TName("Foo"))
    /\ \E k \in 1..Len(MarkedFns) :
          /\ functions[k].args = <<"a: T.Foo">>
          /\ functions[k].return_type = "T.Foo"

(***************************************************************************)
(* Claims about the receivers of emissions, checked under Spec.            *)
(***************************************************************************)
\* the types of the two handle roles: the broadcast handle and the window
\* handles
HandleTypes == {"AppHandle", "WebviewWindow", "Window"}

\* the receiver of the call is a parameter of the enclosing procedure that
\* is declared with a handle type
OnHandle(c) ==
    /\ c.call.receiver.kind = "Path"
    /\ Len(c.call.receiver.segments) = 1
    /\ \E i \in 1..Len(c.inputs) :
          /\ c.inputs[i].kind = "Typed"
          /\ c.inputs[i].pat.kind = "Ident"
          /\ c.inputs[i].pat.ident = c.call.receiver.segments[1]
          /\ c.inputs[i].ty.kind = "Path"
          /\ c.inputs[i].ty.segments # <<>>
          /\ Last(c.inputs[i].ty.segments) \in HandleTypes

\* C24 (as claimed): the recorded events are those of the emit and emit_to
\* calls whose receiver is a handle parameter of the enclosing procedure; a
\* call of that name on any other receiver leaves no entry.
C24_OnlyHandleReceiversRecorded ==
    EventsDone =>
        LET onGlobal == SelectSeq(GlobalCalls, OnHandle)
            onWindow == SelectSeq(WindowCalls, OnHandle)
        IN  /\ Len(global_events) = Len(onGlobal)
            /\ Len(window_events) = Len(onWindow)
            /\ \A i \in 1..Len(onGlobal) :
                  global_events[i].event_name = onGlobal[i].call.args[1].value
            /\ \A i \in 1..Len(onWindow) :
                  window_events[i].event_name = onWindow[i].call.args[2].value

(***************************************************************************)
(* Claims about the order of the extraction steps, checked under Spec.     *)
(***************************************************************************)
\* the type list of the whole module
CompleteTypes == extract_and_convert_types(items)

\* nothing is modeled while the type list is not there, and what is
\* modeled afterwards is modeled against the complete list
ModeledAgainstCompleteTypes ==
    /\ pc = "types" =>
          /\ all_extracted_types = <<>>
          /\ functions = <<>>
          /\ global_events = <<>>
          /\ window_events = <<>>
    /\ TypesDone =>
          /\ all_extracted_types = CompleteTypes
          /\ TypeNames(all_extracted_types)
                = [i \in 1..Len(DeclaredTypes) |-> DeclaredTypes[i].ident]
    /\ pc = "commands" =>
          /\ functions = <<>>
          /\ global_events = <<>>
          /\ window_events = <<>>
    /\ CommandsDone => functions = extract_tauri_commands(items, CompleteTypes)
    /\ EventsDone =>
          [global_events |-> global_events, window_events |-> window_events]
              = extract_events(items, CompleteTypes)

\* a step that models commands or events starts from the complete type
\* list and leaves it as it is
TypesFirst ==
    (functions' # functions \/ global_events' # global_events
        \/ window_events' # window_events)
    => /\ TypesDone
       /\ all_extracted_types = CompleteTypes
       /\ all_extracted_types' = all_extracted_types

\* C25: command modeling and event modeling start only after
\* extract_and_convert_types has returned the complete type list of the
\* module, and both are handed that same list, unmodified; no command or
\* event is modeled against a partial known-type set.
C25_TypesBeforeCommandsAndEvents ==
    []ModeledAgainstCompleteTypes /\ [][TypesFirst]_vars

\* C25 witness: the command declared before the struct it takes was
\* modeled against a list that holds that struct: its parameter was dropped
\* because Point, declared after it, is not deserializable
C25_Witness ==
    /\ EventsDone
    /\ Len(items) = 2
    /\ IsCommand(items[1])
    /\ items[2].kind = "Struct"
    /\ "Point" \in NotDeserializable \cap NotSerializable
    /\ functions[1].args = <<>>
    /\ functions[1].return_type = "unknown"
    /\ global_events = <<[event_name |-> "moved", payload_type |-> "T.Point"]>>

(***************************************************************************)
(* Claims about the alias resolver, checked under SpecAliases.             *)
(***************************************************************************)
\* the non-wildcard leaves of a use tree in source order, each with its
\* local name and its full path from the root of the declaration
RECURSIVE LeavesOf(_, _)
LeavesOf(tree, prefix) ==
    CASE tree.kind = "Path" -> LeavesOf(tree.tree, Append(prefix, tree.ident))
      [] tree.kind = "Name" ->
           <<[local |-> tree.ident, full |-> Join(Append(prefix, tree.ident), "::")]>>
      [] tree.kind = "Rename" ->
           <<[local |-> tree.rename, full |-> Join(Append(prefix, tree.ident), "::")]>>
      [] tree.kind = "Group" ->
           LET RECURSIVE from(_)
               from(i) == IF i > Len(tree.items) THEN <<>>
                          ELSE LeavesOf(tree.items[i], prefix) \o from(i + 1)
           IN  from(1)
      [] OTHER -> <<>>

\* the leaves of the use declarations among its[i..]
RECURSIVE LeavesFrom(_, _)
LeavesFrom(its, i) ==
    IF i > Len(its) THEN <<>>
    ELSE (IF its[i].kind = "Use" THEN LeavesOf(its[i].tree, <<>>) ELSE <<>>)
            \o LeavesFrom(its, i + 1)

ModuleLeaves == LeavesFrom(items, 1)

AliasesDone == alias_pc \in {"path", "done"}

\* the map has an entry for the local names of the leaves and no other
OnlyLeafNames == DOMAIN alias_map = {ModuleLeaves[i].local : i \in 1..Len(ModuleLeaves)}

\* a single-segment path goes through the map, a longer one is taken as
\* it is written
ResolvedThroughMap ==
    alias_pc = "done" =>
        resolved_path =
            IF Len(ty.segments) = 1 /\ ty.segments[1] \in DOMAIN alias_map
            THEN alias_map[ty.segments[1]]
            ELSE Join(ty.segments, "::")

\* C26 (as claimed): for every non-wildcard leaf of every use declaration
\* the alias map takes the leaf's local name to the leaf's full path;
\* wildcards add no entry; the map is applied to single-segment type paths
\* only.
C26_EveryLeafMapped ==
    /\ AliasesDone =>
          /\ OnlyLeafNames
          /\ \A i \in 1..Len(ModuleLeaves) :
                alias_map[ModuleLeaves[i].local] = ModuleLeaves[i].full
    /\ ResolvedThroughMap

\* C26 (amended): the alias map takes the local name of every non-wildcard
\* leaf to the full path of the last leaf, in source order, that has this
\* local name; wildcards add no entry; the map is applied to single-segment
\* type paths only.
C26_LastLeafOfEachNameMapped ==
    /\ AliasesDone =>
          /\ OnlyLeafNames
          /\ \A i \in 1..Len(ModuleLeaves) :
                (\A j \in (i + 1)..Len(ModuleLeaves) :
                    ModuleLeaves[j].local # ModuleLeaves[i].local)
                => alias_map[ModuleLeaves[i].local] = ModuleLeaves[i].full
    /\ ResolvedThroughMap

\* C26 witness: after `use tauri::{ipc::{Response, channel::{Channel as
\* Chan, Sink}}, Emitter}; use {a::X, b::X};` the name Chan was resolved to
\* the full path of its leaf, three groups deep, and X stands for b::X
C26_Witness ==
    /\ alias_pc = "done"
    /\ Len(ModuleLeaves) = 6
    /\ ty = TName("Chan")
    /\ resolved_path = "tauri::ipc::channel::Channel"
    /\ alias_map["X"] = "b::X"
    /\ alias_map["Response"] = "tauri::ipc::Response"

(***************************************************************************)
(* Claims about names that come from wildcard imports and about the match  *)
(* of the context types, checked under Spec.                               *)
(***************************************************************************)
\* the last segments of the context types
ContextNames == {"WebviewWindow", "State", "AppHandle", "Window"}

\* a use tree has a wildcard leaf below the path prefix
RECURSIVE HasGlobBelow(_, _, _)
HasGlobBelow(tree, prefix, root) ==
    CASE tree.kind = "Path" -> HasGlobBelow(tree.tree, Append(prefix, tree.ident), root)
      [] tree.kind = "Glob" -> prefix = root
      [] tree.kind = "Group" ->
           \E i \in 1..Len(tree.items) : HasGlobBelow(tree.items[i], prefix, root)
      [] OTHER -> FALSE

\* the module says `use tauri::*`
ImportsAllOfTauri ==
    \E i \in 1..Len(items) :
        items[i].kind = "Use" /\ HasGlobBelow(items[i].tree, <<>>, <<"tauri">>)

\* the local names the use declarations bring in by name
ImportedNames == {l[1] : l \in Imports}

\* a single-segment name of a context type that only the wildcard brings in
IsWildcardContextName(t) ==
    /\ t.kind = "Path"
    /\ Len(t.segments) = 1
    /\ t.segments[1] \in ContextNames
    /\ t.segments[1] \notin ImportedNames

\* C27: under `use tauri::*` a parameter declared with the single-segment
\* name of a context type (window: Window) is not taken for a context
\* type: it is kept in args, as "name: T.<type name>", and in invoke_args.
C27_WildcardContextTypeKept ==
    (CommandsDone /\ ImportsAllOfTauri) =>
        /\ OnePerMarkedFn
        /\ \A k \in 1..Len(MarkedFns) :
              LET f == MarkedFns[k]
                  c == functions[k]
              IN  \A i \in 1..Len(f.inputs) :
                      (/\ f.inputs[i].kind = "Typed"
                       /\ f.inputs[i].pat.kind = "Ident"
                       /\ IsWildcardContextName(f.inputs[i].ty)
                       /\ ~MentionsNotDeserializable(f.inputs[i].ty))
                      => LET n == f.inputs[i].pat.ident
                         IN  /\ Contains(c.args,
                                         n \o ": T." \o f.inputs[i].ty.segments[1])
                             /\ Contains(c.invoke_args, n \o ": " \o n)

\* C27 witness: under `use tauri::*`, (a: Window, b: String) kept both
\* parameters
C27_Witness ==
    /\ CommandsDone
    /\ ImportsAllOfTauri
    /\ \E k \in 1..Len(MarkedFns) :
          /\ MarkedFns[k].inputs = <<Typed(PatIdent("a"), TName("Window")),
                                     Typed(PatIdent("b"), TName("String"))>>
          /\ functions[k].args = <<"a: T.Window", "b: string">>
          /\ functions[k].invoke_args = <<"a: a", "b: b">>

\* the parameter i of f is named by an identifier, could be deserialized,
\* and has no entry in args nor in invoke_args
IsDroppedParam(f, c, i) ==
    /\ f.inputs[i].kind = "Typed"
    /\ f.inputs[i].pat.kind = "Ident"
    /\ ~MentionsNotDeserializable(f.inputs[i].ty)
    /\ ~Contains(EntryNames(c.args), f.inputs[i].pat.ident)
    /\ ~Contains(EntryNames(c.invoke_args), f.inputs[i].pat.ident)

\* C28 (as claimed): a parameter is dropped as framework-injected only when
\* its canonical path is exactly one of the four context types; one whose
\* path merely begins with the text of the State path (tauri::StateMachine,
\* or a name aliased to it) is kept in args and invoke_args.
C28_DroppedOnlyIfExactlyContextType ==
    CommandsDone =>
        /\ OnePerMarkedFn
        /\ \A k \in 1..Len(MarkedFns) :
              \A i \in 1..Len(MarkedFns[k].inputs) :
                  IsDroppedParam(MarkedFns[k], functions[k], i) =>
                      IsContextType(MarkedFns[k].inputs[i].ty)

\* C28 (amended): a parameter is dropped as framework-injected exactly when
\* its canonical path is one of the four context types or begins with the
\* text "tauri::State": tauri::StateMachine, and a single-segment name
\* aliased to it, are dropped from args and invoke_args like the State
\* container.
C28_DroppedIffContextOrStatePrefix ==
    CommandsDone =>
        /\ OnePerMarkedFn
        /\ \A k \in 1..Len(MarkedFns) :
              \A i \in 1..Len(MarkedFns[k].inputs) :
                  LET input == MarkedFns[k].inputs[i]
                  IN  (/\ input.kind = "Typed"
                       /\ input.pat.kind = "Ident"
                       /\ ~MentionsNotDeserializable(input.ty))
                      => (IsDroppedParam(MarkedFns[k], functions[k], i)
                            <=> (IsContextType(input.ty) \/ BeginsLikeState(input.ty)))

\* C28 witness: under `use tauri::{.., StateMachine as Machine, ..}`,
\* (a: Machine, b: String) lost a and kept b
C28_Witness ==
    /\ CommandsDone
    /\ <<"Machine", "tauri::StateMachine">> \in Imports
    /\ \E k \in 1..Len(MarkedFns) :
          /\ MarkedFns[k].inputs = <<Typed(PatIdent("a"), TName("Machine")),
                                     Typed(PatIdent("b"), TName("String"))>>
          /\ ~IsContextType(MarkedFns[k].inputs[1].ty)
          /\ functions[k].args = <<"b: string">>
          /\ functions[k].invoke_args = <<"b: b">>

(***************************************************************************)
(* Claims about the exported type declarations, checked under SpecRun.     *)
(***************************************************************************)
\* the type strings of a declaration: those of its fields, or of the
\* members of its variants
TypeStringsOf(shape) ==
    IF shape.type = "interface"
    THEN {shape.fields[i].type : i \in 1..Len(shape.fields)}
    ELSE UNION {IF shape.variants[v].type = "tuple"
                THEN {shape.variants[v].members[i] :
                         i \in 1..Len(shape.variants[v].members)}
                ELSE IF shape.variants[v].type = "struct"
                THEN {shape.variants[v].members[i].type :
                         i \in 1..Len(shape.variants[v].members)}
                ELSE {} :
                v \in 1..Len(shape.variants)}

\* the type string mentions name without the "T." marker before it
MentionsUnmarked(type_string, name) ==
    \E i \in 1..(Len(type_string) - Len(name) + 1) :
        /\ SubSeq(type_string, i, i + Len(name) - 1) = name
        /\ (i < 3 \/ SubSeq(type_string, i - 2, i - 1) # "T.")

\* the names of the types of all modules, and of those that are exported
ExtractedNames == {all_ts_interfaces[i].name : i \in 1..Len(all_ts_interfaces)}
ExportedNames == {types_index[i].name : i \in 1..Len(types_index)}

\* C29 (as claimed): the exported declarations are closed under reference:
\* a user-defined type named without the marker in a field or variant
\* member of an exported declaration is exported too.
C29_ExportedTypesClosed ==
    run_state = "finished" =>
        \A k \in 1..Len(types_index) :
            \A type_string \in TypeStringsOf(types_index[k]) :
                \A name \in ExtractedNames :
                    MentionsUnmarked(type_string, name) => name \in ExportedNames

(***************************************************************************)
(* Claims about the template context, checked under SpecContext.           *)
(***************************************************************************)
\* the known user-defined types with at least one of the two flags
FlaggedNames ==
    {all_extracted_types[i].name : i \in
        {j \in 1..Len(all_extracted_types) :
            \/ all_extracted_types[j].is_serializable
            \/ all_extracted_types[j].is_deserializable}}

\* the type strings of a command: those of its kept arguments (the text
\* after "name: ") and its return type
TypeTextsOf(c) ==
    {SubSeq(c.args[a], Len(EntryName(c.args[a])) + 3, Len(c.args[a])) :
        a \in 1..Len(c.args)}
    \cup {c.return_type}

\* the type string mentions the marked name of a flagged known type,
\* alone or inside another type expression
MentionsFlaggedType(type_text) ==
    \E name \in FlaggedNames : ContainsStr(type_text, "T." \o name)

\* C30 (as claimed): has_user_defined_types_in_commands is true exactly
\* when a kept argument type or a return type of some command mentions the
\* marked name of a known type with at least one flag, also inside another
\* type expression ("T.Point | undefined", "T.Point[]", "Record<string,
\* T.Point>").
C30_FlagIffMarkedTypeMentioned ==
    pc = "context" =>
        (has_user_defined_types_in_commands
            <=> \E k \in 1..Len(functions) :
                    \E type_text \in TypeTextsOf(functions[k]) :
                        MentionsFlaggedType(type_text))

====
